---- MODULE Spec2Model ----
(***************************************************************************)
(* Compound-operation pipeline of codeagent: the compound intent parser    *)
(* and dependency resolver (src/utils/htmlProcessor.ts, lines 435-768) and *)
(* the compound operation executor (src/utils/decisionFramework.ts, lines  *)
(* 818-1175) with the command handlers it awaits.                          *)
(*                                                                         *)
(* Strings are modelled by their structure.  A text is a sequence of words *)
(* separated by single spaces; a word is a record [folder, name, ext]      *)
(* standing for "folder/name.ext" (folder and ext may be empty), so that   *)
(* split(' '), split('/').pop(), endsWith('.css') and `${folder}/${file}`  *)
(* are computed and not assumed.  An object reference (an Operation of the *)
(* operations array) is the position of the object in that array.          *)
(***************************************************************************)
EXTENDS Integers, Sequences, FiniteSets, TLC

VARIABLES
    compoundIntent,    \* the CompoundIntent handed to executeCompoundIntent (read only)
    fs,                \* paths that exist on the file system
    i,                 \* loop variable of executeCompoundIntent (1-based)
    pc,                \* position of the run: "check", "await", "summary", "done"
    pending,           \* the command handler the run awaits ("" when none)
    result,            \* ExecutionResult under construction
    executionContext,  \* ExecutionContext of the run
    calls,             \* command handler invocations, in order
    inferences,        \* model-inference calls made by handlers, in order
    sortedOperations,  \* output of sortOperationsByDependencies
    validation,        \* output of validateOperationSequence
    userInput,         \* the line typed at the chat prompt
    legacyIntent,      \* output of recognizeIntent ("" before the call)
    session,           \* the ChatSession of interactive chat mode
    processing,        \* inputs of the processUserInput invocations that await
    request,           \* arguments of classifyContent / selectModel
    config,            \* EnhancedModelRouter.config.routing
    userPreferences,   \* EnhancedModelRouter.userPreferences
    classification,    \* ContentClassification returned by classifyContent
    selection,         \* ModelSelectionResult returned by selectModel
    performanceTracker,\* EnhancedModelRouter.performanceTracker, by model name
    healthStatus,      \* EnhancedModelRouter.healthStatus, by model name
    history            \* classifications and selections returned so far

chatVars == <<userInput, legacyIntent, session, processing>>

routerVars == <<request, config, userPreferences, classification, selection,
                performanceTracker, healthStatus, history>>

vars == <<compoundIntent, fs, i, pc, pending, result, executionContext, calls,
          inferences, sortedOperations, validation, chatVars, routerVars>>

---------------------------------------------------------------------------
(* Bounds *)

MaxOps == 3
MaxListLen == 3
MaxPriority == 2
MaxWords == 3
MaxPromptWords == 1
MaxCalls == 3
MaxMessages == 4

---------------------------------------------------------------------------
(* Texts *)

W(folder, name, ext) == [folder |-> folder, name |-> name, ext |-> ext]
T(name) == W("", name, "")

InSeq(x, s) == \E k \in DOMAIN s : s[k] = x

\* String.prototype.split(' ') on a text: its words.
SplitOnSpace(text) == text

\* text.endsWith('.css'): the last word carries the extension css.
EndsWithCss(text) == Len(text) > 0 /\ text[Len(text)].ext = "css"

\* text.split('/').pop(): what follows the last slash of the text, the whole
\* text when it holds no slash.
LastSlashWord(text) ==
    IF \E k \in DOMAIN text : text[k].folder # ""
    THEN CHOOSE k \in DOMAIN text :
            /\ text[k].folder # ""
            /\ \A m \in DOMAIN text : text[m].folder # "" => m <= k
    ELSE 0

AfterLastSlash(text) ==
    LET k == LastSlashWord(text) IN
    IF k = 0 THEN text
    ELSE <<[text[k] EXCEPT !.folder = ""]>> \o SubSeq(text, k + 1, Len(text))

---------------------------------------------------------------------------
(* Operations *)

Operation(intent, target, description, dependencies, priority) ==
    [intent |-> intent, target |-> target, description |-> description,
     dependencies |-> dependencies, priority |-> priority]

Description(template, args) == [template |-> template, args |-> args]

LinkRelationship == [from |-> "css", to |-> "html", type |-> "link"]

Context(folder, mainAction, relationships) ==
    [folder |-> folder, mainAction |-> mainAction, relationships |-> relationships]

StylesCss == <<W("site", "styles", "css")>>
ThemeCss  == <<W("site", "theme", "css")>>
IndexHtml == <<W("site", "index", "html")>>
OldTs     == <<W("", "old", "ts")>>
NewTs     == <<W("lib", "new", "ts")>>
PlanNotes == <<T("unknown")>>

UserText == Description("text", <<>>)

\* Operations handed to the executor directly (executeCompoundIntent is exported).
ExecOperations ==
    { Operation("write", StylesCss, UserText, <<>>, 1),
      Operation("write", ThemeCss, UserText, <<>>, 1),
      Operation("edit", IndexHtml, UserText, <<StylesCss>>, 1),
      Operation("edit", IndexHtml, UserText, <<>>, 1),
      Operation("edit", StylesCss, UserText, <<IndexHtml>>, 1),
      Operation("edit", IndexHtml, UserText, <<StylesCss, ThemeCss>>, 1),
      Operation("move", OldTs \o NewTs, UserText, <<>>, 1),
      Operation("move", IndexHtml, UserText, <<>>, 1),
      Operation("plan", PlanNotes, UserText, <<>>, 1),
      Operation("ask", PlanNotes, UserText, <<>>, 1) }

SeqsUpTo(S, n) == UNION { [1..k -> S] : k \in 0..n }

FsPaths == {IndexHtml, OldTs}

---------------------------------------------------------------------------
(* Dependency resolver *)

\* Operations given to the resolver: writes, edits and another intent, with
\* dependencies on a write, on an edit and on a plan, chains and a cycle.
ResolverShapes ==
    { <<"write", StylesCss, <<>>>>,
      <<"write", ThemeCss, <<StylesCss>>>>,
      <<"write", StylesCss, <<IndexHtml>>>>,
      <<"edit", IndexHtml, <<StylesCss>>>>,
      <<"edit", IndexHtml, <<ThemeCss>>>>,
      <<"edit", StylesCss, <<IndexHtml>>>>,
      <<"edit", IndexHtml, <<PlanNotes>>>>,
      <<"plan", PlanNotes, <<>>>> }

ResolverOperations ==
    { Operation(sh[1], sh[2], UserText, sh[3], p) :
        sh \in ResolverShapes, p \in 1..MaxPriority }

\* Array.prototype.sort((a, b) => a.priority - b.priority): a stable sort.
RECURSIVE SortByPriority(_)
SortByPriority(ops) ==
    IF Len(ops) = 0 THEN <<>>
    ELSE LET op == ops[Len(ops)]
             before == SortByPriority(SubSeq(ops, 1, Len(ops) - 1))
             keeps(o) == o.priority <= op.priority
             moves(o) == o.priority > op.priority
         IN SelectSeq(before, keeps) \o <<op>> \o SelectSeq(before, moves)

\* Variant: one sort by priority over the whole list, without the buckets.
sortOperationsByPriorityOnly(ops, ctx) == SortByPriority(ops)

sortOperationsByDependencies(ops, ctx) ==
    LET isWrite(op) == op.intent = "write"
        isEdit(op) == op.intent = "edit"
        isOther(op) == op.intent # "write" /\ op.intent # "edit"
        writeOps == SortByPriority(SelectSeq(ops, isWrite))
        editOps == SortByPriority(SelectSeq(ops, isEdit))
        otherOps == SortByPriority(SelectSeq(ops, isOther))
    IN writeOps \o editOps \o otherOps

\* operations.find(o => o.target === dep): 0 when undefined.
FindByTarget(ops, dep) ==
    IF \E k \in DOMAIN ops : ops[k].target = dep
    THEN CHOOSE k \in DOMAIN ops :
            /\ ops[k].target = dep
            /\ \A m \in DOMAIN ops : ops[m].target = dep => k <= m
    ELSE 0

\* The errors the inner loop pushes for one operation, from dependency d on.
RECURSIVE CircularErrorsOf(_, _, _)
CircularErrorsOf(ops, op, d) ==
    IF d > Len(op.dependencies) THEN <<>>
    ELSE LET dep == op.dependencies[d]
             depOp == FindByTarget(ops, dep)
             here == IF depOp # 0 /\ InSeq(op.target, ops[depOp].dependencies)
                     THEN <<[msg |-> "Circular dependency detected",
                             between |-> op.target, and |-> dep]>>
                     ELSE <<>>
         IN here \o CircularErrorsOf(ops, op, d + 1)

RECURSIVE CircularErrorsFrom(_, _)
CircularErrorsFrom(ops, k) ==
    IF k > Len(ops) THEN <<>>
    ELSE CircularErrorsOf(ops, ops[k], 1) \o CircularErrorsFrom(ops, k + 1)

validateOperationSequence(ops) ==
    LET errors == CircularErrorsFrom(ops, 1)
    IN [isValid |-> Len(errors) = 0, errors |-> errors]

---------------------------------------------------------------------------
(* Compound intent parser *)

\* Keywords that occur inside another plain word of the inputs: <<word, keyword,
\* where>>.  Every word also starts with, ends with and contains itself.
Affixes ==
    { <<"explain", "in", "end">>, <<"index", "in", "start">>, <<"link", "in", "inside">>,
      <<"caching", "in", "inside">>, <<"styling", "styl", "start">>,
      <<"stylesheet", "styl", "start">>, <<"styles", "styl", "start">>,
      <<"debug", "bug", "end">>, <<"implementation", "implement", "start">>,
      <<"does", "do", "start">> }

PlainStarts(s, kw) == s # "" /\ (s = kw \/ <<s, kw, "start">> \in Affixes)
PlainEnds(s, kw) == s # "" /\ (s = kw \/ <<s, kw, "end">> \in Affixes)
PlainContains(s, kw) ==
    s # "" /\ (s = kw \/ \E where \in {"start", "end", "inside"} : <<s, kw, where>> \in Affixes)

StartsWith(w, kws) ==
    \E kw \in kws : IF w.folder # "" THEN PlainStarts(w.folder, kw) ELSE PlainStarts(w.name, kw)
EndsWith(w, kws) ==
    \E kw \in kws : IF w.ext # "" THEN PlainEnds(w.ext, kw) ELSE PlainEnds(w.name, kw)
Contains(w, kws) ==
    \E kw \in kws : \/ PlainContains(w.folder, kw)
                    \/ PlainContains(w.name, kw)
                    \/ PlainContains(w.ext, kw)
\* The word is one of kws and nothing else.
IsWord(w, kws) == w.folder = "" /\ w.ext = "" /\ w.name \in kws
\* The word matches \w+ as a whole.
IsWordChars(w) == w.folder = "" /\ w.ext = "" /\ w.name # ""

includes(input, kws) == \E k \in DOMAIN input : Contains(input[k], kws)

\* Smallest element of a non-empty set of positions.
First(S) == CHOOSE k \in S : \A m \in S : k <= m

\* Largest element of a non-empty set of positions.
Last(S) == CHOOSE k \in S : \A m \in S : m <= k

\* Positions a match may continue at after position p and an optional word.
AfterOptional(input, p, optional) ==
    {p + 1} \cup (IF p + 1 <= Len(input) /\ IsWord(input[p + 1], optional)
                  THEN {p + 2} ELSE {})

\* verb X and verb Y: the first, second and fourth of COMPOUND_PATTERNS share
\* this shape; first ends a word, second is a word after the joining word.
TwoClauses(input, first, joiner, second) ==
    \E p \in DOMAIN input :
        /\ EndsWith(input[p], first)
        /\ \E q \in (p + 2)..(Len(input) - 2) :
            /\ IsWord(input[q], joiner)
            /\ IsWord(input[q + 1], second)

CompoundPattern1(input) ==
    TwoClauses(input, {"create", "make", "write", "generate"}, {"and"},
               {"modify", "edit", "update", "change"})

CompoundPattern2(input) ==
    \E n \in DOMAIN input :
        /\ EndsWith(input[n], {"in"})
        /\ \E f \in AfterOptional(input, n, {"the"}) :
            /\ f <= Len(input) /\ IsWordChars(input[f])
            /\ \E p \in AfterOptional(input, f, {"folder"}) :
                /\ p <= Len(input)
                /\ IsWord(input[p], {"create", "make"})
                /\ \E q \in (p + 2)..(Len(input) - 2) :
                    /\ IsWord(input[q], {"and"})
                    /\ IsWord(input[q + 1], {"modify", "edit", "update"})

CompoundPattern3(input) ==
    TwoClauses(input, {"create", "make", "write"}, {"then"}, {"modify", "edit", "update"})

CompoundPattern4(input) ==
    \E p \in DOMAIN input :
        /\ EndsWith(input[p], {"create", "make"})
        /\ \E q \in (p + 2)..(Len(input) - 1) :
            /\ IsWord(input[q], {"and"})
            /\ IsWord(input[q + 1], {"connect", "link"})
            /\ \E t \in AfterOptional(input, q + 1, {"it"}) :
                t + 1 <= Len(input) /\ IsWord(input[t], {"to"})

\* create [a] css file ... modify ... html ... link
LinkingPattern1(input) ==
    \E p \in DOMAIN input :
        /\ EndsWith(input[p], {"create", "make"})
        /\ \E c \in AfterOptional(input, p, {"a"}) :
            /\ c + 1 <= Len(input)
            /\ IsWord(input[c], {"css"})
            /\ StartsWith(input[c + 1], {"file"})
            /\ \E q \in (c + 2)..Len(input) :
                /\ EndsWith(input[q], {"modify", "edit", "update"})
                /\ \E r \in (q + 1)..Len(input) :
                    /\ Contains(input[r], {"html"})
                    /\ \E l \in (r + 1)..Len(input) :
                        Contains(input[l], {"connect", "link"})

\* create [a] css|stylesheet ... link ... html|index
LinkingPattern2(input) ==
    \E p \in DOMAIN input :
        /\ EndsWith(input[p], {"create", "make"})
        /\ \E c \in AfterOptional(input, p, {"a"}) :
            /\ c <= Len(input)
            /\ StartsWith(input[c], {"css", "stylesheet"})
            /\ \E l \in (c + 1)..Len(input) :
                /\ Contains(input[l], {"link", "connect"})
                /\ \E h \in (l + 1)..Len(input) :
                    Contains(input[h], {"html", "index"})

\* in [the] FOLDER ... create [a] css file ... modify ... html ... link ... css
LinkingPattern3(input) ==
    \E n \in DOMAIN input :
        /\ EndsWith(input[n], {"in"})
        /\ \E f \in AfterOptional(input, n, {"the"}) :
            /\ f <= Len(input) /\ IsWordChars(input[f])
            /\ \E p \in (f + 1)..Len(input) :
                /\ EndsWith(input[p], {"create", "make"})
                /\ \E c \in AfterOptional(input, p, {"a"}) :
                    /\ c + 1 <= Len(input)
                    /\ IsWord(input[c], {"css"})
                    /\ StartsWith(input[c + 1], {"file"})
                    /\ \E q \in (c + 2)..Len(input) :
                        /\ Contains(input[q], {"modify", "edit"})
                        /\ \E r \in (q + 1)..Len(input) :
                            /\ Contains(input[r], {"html"})
                            /\ \E l \in (r + 1)..Len(input) :
                                /\ Contains(input[l], {"connect", "link"})
                                /\ \E x \in (l + 1)..Len(input) :
                                    Contains(input[x], {"css"})

matchesLinkingPattern(input) ==
    LinkingPattern1(input) \/ LinkingPattern2(input) \/ LinkingPattern3(input)

detectCompoundRequest(input) ==
    \/ CompoundPattern1(input) \/ CompoundPattern2(input)
    \/ CompoundPattern3(input) \/ CompoundPattern4(input)
    \/ matchesLinkingPattern(input)
    \/ /\ includes(input, {"create", "make", "write", "generate"})
       /\ includes(input, {"modify", "edit", "update", "change"})

\* in [the] FOLDER folder|directory: the folder word, "" when there is no match.
extractFolder(input) ==
    LET hits == { n \in DOMAIN input :
                    /\ EndsWith(input[n], {"in"})
                    /\ \E f \in AfterOptional(input, n, {"the"}) :
                        /\ f + 1 <= Len(input)
                        /\ IsWordChars(input[f])
                        /\ StartsWith(input[f + 1], {"folder", "directory"}) }
    IN IF hits = {} THEN ""
       ELSE LET n == First(hits)
                f == Last({ f \in AfterOptional(input, n, {"the"}) :
                                /\ f + 1 <= Len(input)
                                /\ IsWordChars(input[f])
                                /\ StartsWith(input[f + 1], {"folder", "directory"}) })
            IN input[f].name

ActionVerbs == {"create", "make", "modify", "edit", "update", "write", "generate"}

extractMainAction(input) ==
    LET hits == { k \in DOMAIN input : Contains(input[k], ActionVerbs) }
    IN IF hits = {} THEN ""
       ELSE CHOOSE verb \in ActionVerbs : Contains(input[First(hits)], {verb})

extractContext(input) ==
    Context(extractFolder(input), extractMainAction(input),
            IF includes(input, {"connect"}) \/ includes(input, {"link"})
            THEN <<LinkRelationship>> ELSE <<>>)

\* /(\w+\.css)|css\s+file/ and its html twin: the file name of the leftmost
\* match, <<>> (null) when there is no match or it is the "css file" branch.
extractFileName(input, type) ==
    LET named(k) == input[k].ext = type /\ input[k].name # ""
        phrase(k) == /\ EndsWith(input[k], {type})
                     /\ k + 1 <= Len(input)
                     /\ StartsWith(input[k + 1], {"file"})
        hits == { k \in DOMAIN input : named(k) \/ phrase(k) }
    IN IF hits = {} THEN <<>>
       ELSE IF named(First(hits)) THEN <<[input[First(hits)] EXCEPT !.folder = ""]>>
       ELSE <<>>

\* `${folder}/${fileName}` for a file name without a folder of its own.
JoinPath(folder, fileName) ==
    IF folder = "" THEN fileName
    ELSE <<[fileName[1] EXCEPT !.folder = folder]>> \o SubSeq(fileName, 2, Len(fileName))

DefaultStyling == <<T("colorful"), T("and"), T("modern"), T("styling")>>

\* with|do|add|include [some] WORDS styl...: the words; else ADJECTIVE
\* styling|design|effects: both words; else the default.
extractStylingDescription(input) ==
    LET starters == {"with", "do", "add", "include"}
        adjectives == {"colorful", "modern", "responsive", "attractive",
                       "professional", "gradient", "hover"}
        stylFrom(c) == { q \in DOMAIN input :
                            /\ q > c
                            /\ StartsWith(input[q], {"styl"})
                            /\ \A m \in c..(q - 1) : input[m].ext = "" }
        captureFrom(p) ==
            IF /\ p + 1 <= Len(input)
               /\ IsWord(input[p + 1], {"some"})
               /\ stylFrom(p + 2) # {}
            THEN p + 2 ELSE p + 1
        stylAfter(p) == stylFrom(captureFrom(p))
        firstHits == { p \in DOMAIN input :
                            EndsWith(input[p], starters) /\ stylAfter(p) # {} }
        secondHits == { p \in DOMAIN input :
                            /\ EndsWith(input[p], adjectives)
                            /\ p + 1 <= Len(input)
                            /\ StartsWith(input[p + 1], {"styling", "design", "effects"}) }
    IN IF firstHits # {}
       THEN LET p == First(firstHits)
            IN SubSeq(input, captureFrom(p), First(stylAfter(p)) - 1)
       ELSE IF secondHits # {}
       THEN SubSeq(input, First(secondHits), First(secondHits) + 1)
       ELSE DefaultStyling

\* Variant: the targets are the bare file names, without the folder.
parseCSSHTMLLinkingOperationsNoFolder(input) ==
    LET folder == extractContext(input).folder
        stylingDescription == extractStylingDescription(input)
        cssFound == extractFileName(input, "css")
        cssFileName == IF cssFound # <<>> THEN cssFound ELSE <<W("", "styles", "css")>>
        cssPath == cssFileName
        htmlFound == extractFileName(input, "html")
        htmlFileName == IF htmlFound # <<>> THEN htmlFound ELSE <<W("", "index", "html")>>
        htmlPath == htmlFileName
    IN << Operation("write", cssPath,
                    Description("Create a CSS file with", stylingDescription), <<>>, 1),
          Operation("edit", htmlPath,
                    Description("Modify the HTML file to link to the CSS file", cssFileName),
                    <<cssPath>>, 2) >>

parseCSSHTMLLinkingOperations(input) ==
    LET folder == extractContext(input).folder
        stylingDescription == extractStylingDescription(input)
        cssFound == extractFileName(input, "css")
        cssFileName == IF cssFound # <<>> THEN cssFound ELSE <<W("", "styles", "css")>>
        cssPath == JoinPath(folder, cssFileName)
        htmlFound == extractFileName(input, "html")
        htmlFileName == IF htmlFound # <<>> THEN htmlFound ELSE <<W("", "index", "html")>>
        htmlPath == JoinPath(folder, htmlFileName)
    IN << Operation("write", cssPath,
                    Description("Create a CSS file with", stylingDescription), <<>>, 1),
          Operation("edit", htmlPath,
                    Description("Modify the HTML file to link to the CSS file", cssFileName),
                    <<cssPath>>, 2) >>

parseGeneralCompoundOperations(input) == <<>>

parseCompoundOperations(input) ==
    IF matchesLinkingPattern(input) THEN parseCSSHTMLLinkingOperations(input)
    ELSE parseGeneralCompoundOperations(input)

FileExtensions == {"ts", "js", "tsx", "jsx", "html", "css", "py", "java", "cpp", "md", "json"}

\* The first file reference, else the word after folder|directory [called], else
\* 'unknown'.
extractMainTarget(input) ==
    LET files == { k \in DOMAIN input : input[k].ext \in FileExtensions }
        folders == { k \in DOMAIN input :
                        /\ EndsWith(input[k], {"folder", "directory"})
                        /\ \E f \in AfterOptional(input, k, {"called"}) :
                            f <= Len(input) /\ input[f].folder = "" /\ input[f].name # "" }
    IN IF files # {} THEN <<input[First(files)]>>
       ELSE IF folders # {}
       THEN LET k == First(folders)
                f == Last({ f \in AfterOptional(input, k, {"called"}) :
                        f <= Len(input) /\ input[f].folder = "" /\ input[f].name # "" })
            IN <<T(input[f].name)>>
       ELSE <<T("unknown")>>

recognizeBasicIntent(input) ==
    IF \E p, q \in DOMAIN input :
            /\ Contains(input[p], {"create", "make", "write", "generate"})
            /\ q > p
            /\ Contains(input[q], {"file", "folder"})
    THEN "write"
    ELSE IF includes(input, {"edit", "modify", "change", "update", "refactor", "fix"})
    THEN "edit"
    ELSE IF includes(input, {"move", "rename", "relocate"}) THEN "move"
    ELSE IF includes(input, {"plan", "design", "implement"}) THEN "plan"
    ELSE "ask"

\* <<>> stands for null.
parseSingleOperation(input) ==
    LET intent == recognizeBasicIntent(input) IN
    IF intent = "ask" THEN <<>>
    ELSE <<Operation(intent, extractMainTarget(input), Description("input", input),
                     <<>>, 1)>>

recognizeCompoundIntent(input) ==
    IF ~ detectCompoundRequest(input)
    THEN [operations |-> parseSingleOperation(input), isCompound |-> FALSE,
          originalInput |-> input, context |-> extractContext(input)]
    ELSE [operations |-> sortOperationsByDependencies(parseCompoundOperations(input),
                                                      extractContext(input)),
          isCompound |-> TRUE, originalInput |-> input,
          context |-> extractContext(input)]

Sentence(names) == [k \in DOMAIN names |-> T(names[k])]

\* in the site folder create a css file and modify index.html to link it
SiteRequest ==
    Sentence(<<"in", "the", "site", "folder", "create", "a", "css", "file", "and",
               "modify">>) \o <<W("", "index", "html")>> \o Sentence(<<"to", "link", "it">>)

\* Requests typed at the chat prompt.
Inputs ==
    { SiteRequest,
      Sentence(<<"make", "a", "stylesheet", "and", "link", "it", "to">>)
          \o <<W("", "index", "html")>>,
      Sentence(<<"create", "a", "css", "file", "with", "dark", "styling", "and", "update",
                 "the", "header">>),
      Sentence(<<"move">>) \o <<W("", "old", "ts")>> \o Sentence(<<"to">>)
          \o <<W("lib", "new", "ts")>>,
      Sentence(<<"rename", "the", "folder", "called", "utils">>),
      Sentence(<<"plan", "the", "caching", "layer">>),
      Sentence(<<"update">>) \o <<W("site", "index", "html")>>
          \o Sentence(<<"to", "link", "the", "stylesheet">>),
      Sentence(<<"edit">>) \o <<W("site", "index", "html")>>,
      Sentence(<<"create", "a", "file">>) \o <<W("site", "theme", "css")>>,
      Sentence(<<"explain", "how", "the", "caching", "layer", "works">>) }

\* Requests for a stylesheet and its link, assembled from their parts.
LinkingRequests ==
    { prefix \o Sentence(<<verb>>) \o object \o tail :
        prefix \in { <<>>, Sentence(<<"in", "the", "site", "folder">>) },
        verb \in { "create", "make" },
        object \in { Sentence(<<"a", "css", "file">>),
                     Sentence(<<"a", "stylesheet">>),
                     Sentence(<<"a", "stylesheet", "called">>) \o <<W("", "theme", "css")>> },
        tail \in { Sentence(<<"and", "modify">>) \o <<W("", "index", "html")>>
                        \o Sentence(<<"to", "link", "it">>),
                   Sentence(<<"and", "link", "it", "to">>) \o <<W("pages", "home", "html")>>,
                   Sentence(<<"and", "update", "the", "html", "file", "to", "connect",
                              "the", "css">>) } }

ParsedIntents == { recognizeCompoundIntent(text) : text \in Inputs \cup LinkingRequests }

---------------------------------------------------------------------------
(* Single-intent classifier: recognizeIntent over INTENT_PATTERNS *)

IntentOrder == <<"plan", "edit", "write", "move", "ask">>

\* /verb\s+(a|the)\s+/: a word ending in the verb, then the article as a word of
\* its own, then a further word.
VerbArticle(text, verbs, articles) ==
    \E p \in DOMAIN text :
        /\ EndsWith(text[p], verbs)
        /\ p + 2 <= Len(text)
        /\ IsWord(text[p + 1], articles)

\* /verb\s+(a|the)\s+noun/: the word after the article starts with the noun.
VerbArticleNoun(text, verbs, articles, nouns) ==
    \E p \in DOMAIN text :
        /\ EndsWith(text[p], verbs)
        /\ p + 2 <= Len(text)
        /\ IsWord(text[p + 1], articles)
        /\ StartsWith(text[p + 2], nouns)

\* /verb\s+(the\s+)?[\w\/\.\-]+/ and /verb\s+/: a word ending in the verb is
\* followed by a word.
VerbWord(text, verbs) ==
    \E p \in DOMAIN text : EndsWith(text[p], verbs) /\ p + 1 <= Len(text)

\* /first\s+(second|...)/ and the keyword 'first second': a word ending in
\* first, and the next word starting with second.
Adjacent(text, first, second) ==
    \E p \in DOMAIN text :
        /\ EndsWith(text[p], first)
        /\ p + 1 <= Len(text)
        /\ StartsWith(text[p + 1], second)

\* Some pattern of the group matches the text.
PatternMatches(text, group) ==
    CASE group = "plan" ->
            \/ VerbArticle(text, {"plan"}, {"a", "the", "this"})
            \/ VerbArticleNoun(text, {"create"}, {"a", "the"}, {"plan"})
            \/ VerbArticle(text, {"design", "implement", "build", "develop"}, {"a", "the"})
      [] group = "edit" ->
            VerbWord(text, {"edit", "modify", "change", "update", "refactor", "fix"})
      [] group = "write" ->
            \/ VerbArticle(text, {"write", "generate", "make"}, {"a", "the"})
            \/ VerbArticleNoun(text, {"create"}, {"a", "the"}, {"file"})
            \/ VerbArticleNoun(text, {"add"}, {"a", "the"}, {"new"})
      [] group = "move" ->
            VerbWord(text, {"move", "rename", "relocate", "reorganize"})
      [] group = "ask" ->
            \/ VerbWord(text, {"explain", "why"})
            \/ Adjacent(text, {"what"}, {"is", "are", "does"})
            \/ Adjacent(text, {"how"}, {"does", "do", "can"})
            \/ Adjacent(text, {"where"}, {"is", "are"})
            \/ \E p \in DOMAIN text :
                /\ EndsWith(text[p], {"tell"})
                /\ p + 2 <= Len(text)
                /\ IsWord(text[p + 1], {"me"})
                /\ StartsWith(text[p + 2], {"about"})
            \/ Adjacent(text, {"show"}, {"me"})

\* Some keyword of the group is contained in the text.
KeywordMatches(text, group) ==
    CASE group = "plan" ->
            \/ includes(text, {"plan", "design", "implement", "build", "develop", "strategy"})
            \/ Adjacent(text, {"create"}, {"plan"})
      [] group = "edit" ->
            includes(text, {"edit", "modify", "change", "update", "refactor", "fix", "improve"})
      [] group = "write" ->
            \/ includes(text, {"write", "create", "generate", "make", "add"})
            \/ Adjacent(text, {"new"}, {"file"})
      [] group = "move" ->
            includes(text, {"move", "rename", "relocate", "reorganize", "restructure"})
      [] group = "ask" ->
            \/ includes(text, {"explain", "what", "how", "why", "where", "help"})
            \/ Adjacent(text, {"tell"}, {"me"})
            \/ Adjacent(text, {"show"}, {"me"})

\* Variant: the keyword scan comes first and the patterns second.
recognizeIntentKeywordsFirst(text) ==
    LET byPattern == { g \in DOMAIN IntentOrder : PatternMatches(text, IntentOrder[g]) }
        byKeyword == { g \in DOMAIN IntentOrder : KeywordMatches(text, IntentOrder[g]) }
    IN IF byKeyword # {} THEN IntentOrder[First(byKeyword)]
       ELSE IF byPattern # {} THEN IntentOrder[First(byPattern)]
       ELSE "ask"

\* The two loops of recognizeIntent: the first group with a matching pattern,
\* else the first group with a contained keyword, else 'ask'.
recognizeIntent(text) ==
    LET byPattern == { g \in DOMAIN IntentOrder : PatternMatches(text, IntentOrder[g]) }
        byKeyword == { g \in DOMAIN IntentOrder : KeywordMatches(text, IntentOrder[g]) }
    IN IF byPattern # {} THEN IntentOrder[First(byPattern)]
       ELSE IF byKeyword # {} THEN IntentOrder[First(byKeyword)]
       ELSE "ask"

\* Words of the lines typed at the prompt.
IntentWords ==
    { T("explain"), T("create"), T("update"), T("fix"), T("the"), T("a"), T("plan"),
      T("file"), T("build"), T("css"), T("link"), W("", "index", "html") }

TypedInputs == Inputs \cup SeqsUpTo(IntentWords, MaxWords)

---------------------------------------------------------------------------
(* Model router: EnhancedModelRouter.classifyContent and selectModel.             *)
(* Scores are counted in tenths and the complexity in thousandths, so that every *)
(* weight of the code (1, 2, 2.1, 3, 4, 5; 0.002 per character, 0.15, 0.1) is an  *)
(* integer; a confidence is the fraction maxScore / totalScore in lowest terms.  *)

\* Object.keys(config.models)
Models == <<"code", "analysis", "creative", "fallback">>

\* config.models[model].name
ModelName(model) ==
    IF model \in {"code", "fallback"} THEN "qwen2.5-coder:7b" ELSE "qwen3:latest"

CREATIVE_INDICATORS ==
    << <<"song">>, <<"poem">>, <<"story">>, <<"joke">>,
       <<"haiku">>, <<"lyrics">>, <<"creative">>, <<"funny">>,
       <<"humor">>, <<"narrative">>, <<"tale">>, <<"adventure">>,
       <<"fantasy">>, <<"comedy">>, <<"romance">>, <<"mystery">>,
       <<"drama">>, <<"character">>, <<"dialogue">>, <<"plot">>,
       <<"write", "a", "song">>, <<"write", "a", "poem">>, <<"tell", "me", "a", "story">> >>

CODE_INDICATORS ==
    << <<"function">>, <<"class">>, <<"component">>, <<"script">>,
       <<"algorithm">>, <<"method">>, <<"implementation">>, <<"interface">>,
       <<"module">>, <<"library">>, <<"framework">>, <<"database">>,
       <<"query">>, <<"endpoint">>, <<"service">>, <<"debug">>,
       <<"refactor">>, <<"optimize">>, <<"bug">>, <<"error">>,
       <<"compile">>, <<"syntax">>, <<"variable">>, <<"parameter">>,
       <<"return">>, <<"import">>, <<"export">>, <<"edit", "file">>,
       <<"create", "file">>, <<"write", "file">>, <<"modify", "code">>, <<"fix", "code">>,
       <<"generate", "code">>, <<"typescript">>, <<"javascript">>, <<"python">>,
       <<"react">>, <<"vue">>, <<"angular">> >>

ANALYSIS_INDICATORS ==
    << <<"documentation">>, <<"readme">>, <<"guide">>, <<"tutorial">>,
       <<"manual">>, <<"explanation">>, <<"how-to">>, <<"instructions">>,
       <<"overview">>, <<"summary">>, <<"describe">>, <<"explain">>,
       <<"what", "is">>, <<"how", "does">>, <<"why", "does">>, <<"purpose", "of">>,
       <<"what", "are">>, <<"how", "can">>, <<"what", "do">>, <<"tell", "me">>,
       <<"help", "me", "understand">>, <<"can", "you", "explain">>, <<"walk", "me", "through">>, <<"break", "down">>,
       <<"clarify">>, <<"elaborate">>, <<"define">>, <<"meaning", "of">>,
       <<"difference", "between">>, <<"compare">>, <<"contrast">>, <<"pros", "and", "cons">>,
       <<"advantages">>, <<"disadvantages">>, <<"analyze">>, <<"analysis">>,
       <<"architecture">>, <<"design">>, <<"strategy">>, <<"planning">>,
       <<"requirements">>, <<"complex", "reasoning">>, <<"understand">>, <<"comprehensive">>,
       <<"deep", "dive">>, <<"investigate">>, <<"research">>, <<"review">>,
       <<"assess">>, <<"evaluate">>, <<"examine">>, <<"study">>,
       <<"inspect">>, <<"audit">>, <<"critique">>, <<"feedback">>,
       <<"recommendation">>, <<"suggest">>, <<"advice">>, <<"best", "practices">>,
       <<"optimization">>, <<"improvement">>, <<"enhancement">>, <<"what", "can", "you", "do">>,
       <<"capabilities">>, <<"features">>, <<"abilities">>, <<"skills">>,
       <<"help", "with">>, <<"assist", "with">>, <<"support">>, <<"what", "do", "you", "know">>,
       <<"can", "you", "help">>, <<"are", "you", "able">>, <<"do", "you", "support">>, <<"how", "good", "are", "you">>,
       <<"solve">>, <<"solution">>, <<"approach">>, <<"methodology">>,
       <<"process">>, <<"steps">>, <<"workflow">>, <<"procedure">>,
       <<"logic">>, <<"reasoning">>, <<"think", "through">>, <<"work", "through">>,
       <<"figure", "out">>, <<"determine">> >>

COMPOUND_INDICATORS ==
    << <<"and", "then">>, <<"and", "also">>, <<"create", "and">>, <<"make", "and">>,
       <<"write", "and">>, <<"first", "create">>, <<"then", "modify">>, <<"connect", "to">>,
       <<"link", "to">>, <<"multiple">>, <<"both">>, <<"all", "of">>,
       <<"several">>, <<"compound", "operation">> >>

CodeExtensions ==
    { ".js", ".ts", ".jsx", ".tsx", ".py", ".java", ".cpp", ".c",
      ".cs", ".go", ".rs", ".php", ".rb", ".swift", ".kt", ".scala",
      ".html", ".css", ".scss", ".sass", ".json", ".xml", ".yaml", ".yml",
      ".sql", ".sh", ".bash", ".zsh", ".dockerfile", ".makefile", ".toml", ".lock",
      ".gitignore", ".env" }

AnalysisExtensions ==
    { ".md", ".txt", ".rst", ".adoc", ".wiki", ".doc" }

CreativeExtensions ==
    { ".poem", ".story", ".lyrics", ".creative" }


\* FILE_EXTENSION_MAP[extension]: "" when the extension is not mapped.
FILE_EXTENSION_MAP(extension) ==
    IF extension \in CodeExtensions THEN "code"
    ELSE IF extension \in AnalysisExtensions THEN "analysis"
    ELSE IF extension \in CreativeExtensions THEN "creative"
    ELSE ""

\* config.routing.qwen_specific of llm.json.
QwenSpecific ==
    [ use_thinking_for_compound |-> TRUE,
      thinking_threshold_complexity |-> 500,
      analysis_weight_multiplier |-> 30,
      question_detection_boost |-> 20,
      code_model_file_types |->
          { ".ts", ".js", ".tsx", ".jsx", ".py", ".go", ".rs", ".html", ".css", ".scss",
            ".json", ".yaml", ".yml", ".sql", ".sh" },
      analysis_model_operations |->
          { "compound_planning", "architecture_analysis", "system_design",
            "complex_explanations", "questions", "capabilities", "explanations" },
      force_analysis_for_compound |-> TRUE ]

RECURSIVE GCD(_, _)
GCD(a, b) == IF b = 0 THEN a ELSE GCD(b, a % b)

\* The number n / d.
Fraction(n, d) == [num |-> n \div GCD(n, d), den |-> d \div GCD(n, d)]

\* A comparison of confidences with its operands exchanged.
LessThanExchanged(x, y) == y.num * x.den < x.num * y.den

LessThan(x, y) == x.num * y.den < y.num * x.den

\* config.routing: llm.json, and the same file with another default profile.
RoutingConfigs ==
    { [ default |-> d, confidence_threshold |-> Fraction(6, 10),
        enable_performance_tracking |-> TRUE, qwen_specific |-> QwenSpecific ] :
        d \in {"analysis", "code"} }

\* ~/.codeagent-preferences.json: defaultModel ("" when unset) and
\* fileExtensionOverrides as pairs <<extension, model>>.
UserPreferenceSets ==
    { [ defaultModel |-> "", fileExtensionOverrides |-> {} ],
      [ defaultModel |-> "creative", fileExtensionOverrides |-> {} ],
      [ defaultModel |-> "", fileExtensionOverrides |-> {<<".md", "creative">>} ] }

Min(a, b) == IF a <= b THEN a ELSE b

Max(a, b) == IF a >= b THEN a ELSE b

\* lowerPrompt.includes(phrase), the phrase given by its words.
ContainsPhrase(text, phrase) ==
    IF Len(phrase) = 1 THEN includes(text, {phrase[1]})
    ELSE \E p \in DOMAIN text :
            /\ p + Len(phrase) - 1 <= Len(text)
            /\ EndsWith(text[p], {phrase[1]})
            /\ \A k \in 2..(Len(phrase) - 1) : IsWord(text[p + k - 1], {phrase[k]})
            /\ StartsWith(text[p + Len(phrase) - 1], {phrase[Len(phrase)]})

\* indicator.includes(part) for one of the parts.
IndicatorIncludes(indicator, parts) ==
    \E part \in parts : ContainsPhrase(Sentence(indicator), part)

creativeWeight(indicator) ==
    IF IndicatorIncludes(indicator, { <<"write", "a">>, <<"tell", "me">> }) THEN 20 ELSE 10

codeWeight(indicator) ==
    IF IndicatorIncludes(indicator, { <<"debug">>, <<"error">>, <<"implement">> })
    THEN 20 ELSE 10

analysisWeight(indicator) ==
    LET analysisMultiplier == QwenSpecific.analysis_weight_multiplier
        questionBoost == QwenSpecific.question_detection_boost
    IN IF IndicatorIncludes(indicator,
            { <<"analyze">>, <<"explain">>, <<"what", "is">>, <<"tell", "me">>,
              <<"what", "can">>, <<"what", "do">> })
       THEN questionBoost * 2
       ELSE IF IndicatorIncludes(indicator,
                { <<"architecture">>, <<"review">>, <<"assess">> })
       THEN analysisMultiplier
       ELSE (analysisMultiplier * 7) \div 10

compoundWeight(indicator) == 20

\* The weight of every indicator, by its position in the list.
creativeWeightsOfIndicators ==
    [k \in DOMAIN CREATIVE_INDICATORS |-> creativeWeight(CREATIVE_INDICATORS[k])]

codeWeightsOfIndicators ==
    [k \in DOMAIN CODE_INDICATORS |-> codeWeight(CODE_INDICATORS[k])]

analysisWeightsOfIndicators ==
    [k \in DOMAIN ANALYSIS_INDICATORS |-> analysisWeight(ANALYSIS_INDICATORS[k])]

compoundWeightsOfIndicators ==
    [k \in DOMAIN COMPOUND_INDICATORS |-> compoundWeight(COMPOUND_INDICATORS[k])]

\* INDICATORS.forEach(indicator => { if (lowerPrompt.includes(indicator)) score += weight })
RECURSIVE IndicatorScore(_, _, _, _)
IndicatorScore(text, indicators, weights, n) ==
    IF n = 0 THEN 0
    ELSE IndicatorScore(text, indicators, weights, n - 1)
         + (IF ContainsPhrase(text, indicators[n]) THEN weights[n] ELSE 0)

\* prompt.length
RECURSIVE PromptLength(_)
PromptLength(text) ==
    IF Len(text) = 0 THEN 0
    ELSE LET w == text[Len(text)]
             chars == Len(w.name) + (IF w.folder = "" THEN 0 ELSE Len(w.folder) + 1)
                                  + (IF w.ext = "" THEN 0 ELSE Len(w.ext) + 1)
         IN PromptLength(SubSeq(text, 1, Len(text) - 1)) + chars
            + (IF Len(text) > 1 THEN 1 ELSE 0)

\* words.filter(word => lowerPrompt.includes(word)).length
CountIncluded(text, words) == Cardinality({ w \in words : includes(text, {w}) })

\* ' and ', ' then ', ...: the word stands between two other words.
CountConjunctions(text, words) ==
    Cardinality({ w \in words :
        \E p \in DOMAIN text : 1 < p /\ p < Len(text) /\ IsWord(text[p], {w}) })

calculateComplexity(prompt) ==
    Min(1000,
        Min(2 * PromptLength(prompt), 300)
        + Min(150 * CountIncluded(prompt, {"create", "edit", "modify", "generate",
                                           "analyze", "connect", "link"}), 400)
        + Min(100 * CountIncluded(prompt, {"architecture", "system", "design",
                                           "integration", "dependency", "compound"}), 300)
        + Min(100 * CountConjunctions(prompt, {"and", "then", "also", "both", "multiple"}),
              200))

shouldUseThinking(prompt, complexity, isCompound) ==
    \/ isCompound /\ config.qwen_specific.use_thinking_for_compound
    \/ complexity >= config.qwen_specific.thinking_threshold_complexity
    \/ \E op \in config.qwen_specific.analysis_model_operations : includes(prompt, {op})

mapModelToType(model) ==
    CASE model = "creative" -> "creative"
      [] model = "analysis" -> "analysis"
      [] OTHER -> "code"

NoExtension == ""
NoModel == ""

\* Variant: the user's default model is not consulted.
DefaultModelFromConfig == config.default

\* this.userPreferences.defaultModel || this.config.routing.default
DefaultModel ==
    IF userPreferences.defaultModel # NoModel THEN userPreferences.defaultModel
    ELSE config.default

ContentClassification(type, confidence, suggestedModel, reasoning, flags) ==
    [ type |-> type, confidence |-> confidence, suggestedModel |-> suggestedModel,
      reasoning |-> reasoning, fileExtensionBonus |-> flags.fileExtensionBonus,
      userOverride |-> flags.userOverride, isCompound |-> flags.isCompound,
      complexity |-> flags.complexity, requiresThinking |-> flags.requiresThinking ]

\* Variant: a model whose health is not good loses its score.
ScoresOfHealthyModels(prompt, fileExtension, isCompound) ==
    LET mappedModel == FILE_EXTENSION_MAP(fileExtension)
        optimized == fileExtension \in config.qwen_specific.code_model_file_types
        degraded(model) ==
            healthStatus[ModelName(model)].status \in {"degraded", "unavailable"}
    IN [ creative |->
            IF degraded("creative") THEN 0
            ELSE IndicatorScore(prompt, CREATIVE_INDICATORS, creativeWeightsOfIndicators,
                                Len(CREATIVE_INDICATORS))
                 + (IF mappedModel = "creative" THEN 30 ELSE 0),
         code |->
            IF degraded("code") THEN 0
            ELSE IndicatorScore(prompt, CODE_INDICATORS, codeWeightsOfIndicators,
                                Len(CODE_INDICATORS))
                 + (IF mappedModel = "code" THEN 40 ELSE 0)
                 + (IF optimized THEN 20 ELSE 0),
         analysis |->
            IF degraded("analysis") THEN 0
            ELSE IndicatorScore(prompt, ANALYSIS_INDICATORS, analysisWeightsOfIndicators,
                                Len(ANALYSIS_INDICATORS))
                 + (IF mappedModel = "analysis" THEN 30 ELSE 0),
         compound |->
            IndicatorScore(prompt, COMPOUND_INDICATORS, compoundWeightsOfIndicators,
                           Len(COMPOUND_INDICATORS))
            + (IF isCompound THEN 50 ELSE 0) ]

\* The four accumulated scores of classifyContent.
Scores(prompt, fileExtension, isCompound) ==
    LET mappedModel == FILE_EXTENSION_MAP(fileExtension)
        optimized == fileExtension \in config.qwen_specific.code_model_file_types
    IN [ creative |->
            IndicatorScore(prompt, CREATIVE_INDICATORS, creativeWeightsOfIndicators,
                           Len(CREATIVE_INDICATORS))
            + (IF mappedModel = "creative" THEN 30 ELSE 0),
         code |->
            IndicatorScore(prompt, CODE_INDICATORS, codeWeightsOfIndicators, Len(CODE_INDICATORS))
            + (IF mappedModel = "code" THEN 40 ELSE 0)
            + (IF optimized THEN 20 ELSE 0),
         analysis |->
            IndicatorScore(prompt, ANALYSIS_INDICATORS, analysisWeightsOfIndicators,
                           Len(ANALYSIS_INDICATORS))
            + (IF mappedModel = "analysis" THEN 30 ELSE 0),
         compound |->
            IndicatorScore(prompt, COMPOUND_INDICATORS, compoundWeightsOfIndicators,
                           Len(COMPOUND_INDICATORS))
            + (IF isCompound THEN 50 ELSE 0) ]

PreferredModel(fileExtension) ==
    (CHOOSE pair \in userPreferences.fileExtensionOverrides : pair[1] = fileExtension)[2]

HasPreferredModel(fileExtension) ==
    /\ fileExtension # NoExtension
    /\ \E pair \in userPreferences.fileExtensionOverrides : pair[1] = fileExtension

MaxScore(score) ==
    Max(Max(score.creative, score.code), Max(score.analysis, score.compound))

\* Variant: the compound score is left out of the sum.
TotalScoreWithoutCompound(score) == score.creative + score.code + score.analysis

TotalScore(score) == score.creative + score.code + score.analysis + score.compound

\* Variant: the code branch is tested before the compound and creative branches.
PrimaryTypeCodeFirst(score, complexity, requiresThinking) ==
    IF score.code = MaxScore(score)
    THEN [type |-> "code", suggestedModel |-> "code"]
    ELSE IF score.compound = MaxScore(score) /\ score.compound > 0
    THEN [type |-> "compound",
          suggestedModel |-> IF requiresThinking THEN "analysis" ELSE "code"]
    ELSE IF score.creative = MaxScore(score) /\ score.creative > 0
    THEN [type |-> "creative", suggestedModel |-> "creative"]
    ELSE [type |-> "analysis", suggestedModel |-> "analysis"]

\* Variant: a category is chosen only when it alone holds the maximum score.
PrimaryTypeStrictMaximum(score, complexity, requiresThinking) ==
    LET alone(category) ==
            \A other \in {"creative", "code", "analysis", "compound"} \ {category} :
                score[other] < score[category]
    IN IF alone("compound")
       THEN [type |-> "compound",
             suggestedModel |-> IF requiresThinking THEN "analysis" ELSE "code"]
       ELSE IF alone("creative")
       THEN [type |-> "creative", suggestedModel |-> "creative"]
       ELSE IF alone("code")
       THEN [type |-> "code", suggestedModel |-> "code"]
       ELSE IF alone("analysis")
       THEN [type |-> "analysis", suggestedModel |-> "analysis"]
       ELSE [type |-> "mixed",
             suggestedModel |-> IF score.analysis > 0 \/ complexity > 700
                                THEN "analysis" ELSE "code"]

\* The branches of classifyContent that compare the scores with maxScore
\* (totalScore is not 0).
PrimaryType(score, complexity, requiresThinking) ==
    IF score.compound = MaxScore(score) /\ score.compound > 0
    THEN [type |-> "compound",
          suggestedModel |-> IF requiresThinking THEN "analysis" ELSE "code"]
    ELSE IF score.creative = MaxScore(score) /\ score.creative > 0
    THEN [type |-> "creative", suggestedModel |-> "creative"]
    ELSE IF score.code = MaxScore(score)
    THEN [type |-> "code", suggestedModel |-> "code"]
    ELSE IF score.analysis = MaxScore(score)
    THEN [type |-> "analysis", suggestedModel |-> "analysis"]
    ELSE [type |-> "mixed",
          suggestedModel |-> IF score.analysis > 0 \/ complexity > 700
                             THEN "analysis" ELSE "code"]

classifyContent(prompt, fileExtension, userOverride, isCompound) ==
    LET complexity == calculateComplexity(prompt)
        requiresThinking == shouldUseThinking(prompt, complexity, isCompound)
        score == Scores(prompt, fileExtension, isCompound)
        fileExtensionBonus ==
            fileExtension # NoExtension /\ FILE_EXTENSION_MAP(fileExtension) # ""
        maxScore == MaxScore(score)
        totalScore == TotalScore(score)
        confidence == IF totalScore > 0 THEN Fraction(maxScore, totalScore)
                      ELSE Fraction(1, 2)
        chosen(type, suggestedModel, reasoning) ==
            ContentClassification(type, confidence, suggestedModel, reasoning,
                [ fileExtensionBonus |-> fileExtensionBonus, userOverride |-> FALSE,
                  isCompound |-> isCompound, complexity |-> complexity,
                  requiresThinking |-> requiresThinking ])
    IN IF userOverride # NoModel
       THEN ContentClassification(mapModelToType(userOverride), Fraction(1, 1),
                userOverride, "user",
                [ fileExtensionBonus |-> FALSE, userOverride |-> TRUE,
                  isCompound |-> isCompound, complexity |-> complexity,
                  requiresThinking |-> requiresThinking ])
       ELSE IF HasPreferredModel(fileExtension)
       THEN LET preferredModel == PreferredModel(fileExtension)
            IN ContentClassification(
                    IF preferredModel = "creative" THEN "creative"
                    ELSE IF preferredModel = "documentation" THEN "documentation"
                    ELSE "code",
                    Fraction(9, 10), preferredModel, "preference",
                    [ fileExtensionBonus |-> FALSE, userOverride |-> TRUE,
                      isCompound |-> FALSE, complexity |-> 0,
                      requiresThinking |-> FALSE ])
       ELSE IF /\ isCompound
               /\ config.qwen_specific.force_analysis_for_compound
               /\ requiresThinking
       THEN chosen("compound", "analysis", "forced compound")
       ELSE IF totalScore = 0
       THEN chosen("analysis", DefaultModel, "default")
       ELSE LET primary == PrimaryType(score, complexity, requiresThinking)
            IN chosen(primary.type, primary.suggestedModel, primary.type)

\* The other models in the order of config.models; each is classified with
\* itself as override, so all have confidence 1.0 and the stable sort keeps the
\* order: the first two.
Alternatives(prompt, fileExtension, selectedModel) ==
    LET others == SelectSeq(Models, LAMBDA model : model # selectedModel)
    IN [ k \in 1..Min(2, Len(others)) |->
            [ model |-> others[k],
              score |-> classifyContent(prompt, fileExtension, others[k], FALSE).confidence ] ]

\* Variant: the forced model is not handed to classifyContent and not applied.
selectModelWithoutForce(prompt, fileExtension, forceModel, isCompound) ==
    LET classified == classifyContent(prompt, fileExtension, NoModel, isCompound)
    IN [ selectedModel |-> classified.suggestedModel, reasoning |-> classified.reasoning,
         confidence |-> classified.confidence, override |-> "auto",
         alternatives |-> Alternatives(prompt, fileExtension, classified.suggestedModel) ]

selectModel(prompt, fileExtension, forceModel, isCompound) ==
    LET classified == classifyContent(prompt, fileExtension, forceModel, isCompound)
        belowThreshold == LessThan(classified.confidence, config.confidence_threshold)
        selectedModel ==
            IF forceModel # NoModel THEN forceModel
            ELSE IF classified.userOverride THEN classified.suggestedModel
            ELSE IF classified.fileExtensionBonus THEN classified.suggestedModel
            ELSE IF belowThreshold THEN DefaultModel
            ELSE classified.suggestedModel
        overrideType ==
            IF forceModel # NoModel THEN "user"
            ELSE IF classified.userOverride THEN "user"
            ELSE IF classified.fileExtensionBonus THEN "extension"
            ELSE IF belowThreshold THEN "default"
            ELSE "auto"
    IN [ selectedModel |-> selectedModel, reasoning |-> classified.reasoning,
         confidence |-> classified.confidence, override |-> overrideType,
         alternatives |-> Alternatives(prompt, fileExtension, selectedModel) ]

\* Words of the prompts handed to the router.
PromptWords ==
    { T("song"), T("story"), T("class"), T("debug"), T("explain"), T("review"),
      T("design"), T("both"), T("hello") }

\* Prompts whose scores tie, prompts with indicators of several words, a
\* prompt of high complexity and a question about a code base.
LongPrompts ==
    { Sentence(<<"debug", "review">>),
      Sentence(<<"song", "class">>),
      Sentence(<<"review", "design">>),
      Sentence(<<"both", "song", "story">>),
      Sentence(<<"write", "a", "song">>),
      Sentence(<<"tell", "me", "a", "story">>),
      Sentence(<<"what", "is", "a", "class">>),
      Sentence(<<"create", "and", "then", "connect", "the", "design", "system">>),
      Sentence(<<"explain", "how", "the", "caching", "layer", "works">>) }

Prompts == SeqsUpTo(PromptWords, MaxPromptWords) \cup LongPrompts

RequestExtensions == { NoExtension, ".ts", ".md", ".poem", ".log" }

Request(prompt, fileExtension, forceModel, isCompound) ==
    [ prompt |-> prompt, fileExtension |-> fileExtension, forceModel |-> forceModel,
      isCompound |-> isCompound ]

Requests ==
    { Request(prompt, fileExtension, forceModel, isCompound) :
        prompt \in Prompts, fileExtension \in RequestExtensions,
        forceModel \in { NoModel, "creative" }, isCompound \in BOOLEAN }

---------------------------------------------------------------------------
(* Executor helpers *)

NoText == <<>>
NoDescription == Description("", <<>>)

ErrorMessage(msg, detail) == [msg |-> msg, detail |-> detail]

HandlerCall(handler, pos, path, destination, instruction) ==
    [handler |-> handler, pos |-> pos, path |-> path,
     destination |-> destination, instruction |-> instruction]

operations == compoundIntent.operations
context == compoundIntent.context
operation == operations[i]

\* fileExists(path): fs.access succeeds.
fileExists(path) == path \in fs

\* Variant: the missing dependencies are computed but never fail the check.
checkDependenciesNeverFails(op, ctx) ==
    LET depMissing(dep) ==
            ~ ( \/ InSeq(dep, ctx.createdFiles)
                \/ InSeq(dep, ctx.modifiedFiles)
                \/ fileExists(dep) )
        missingDeps == SelectSeq(op.dependencies, depMissing)
    IN [satisfied |-> Len(missingDeps) >= 0, missingDeps |-> missingDeps]

checkDependencies(op, ctx) ==
    LET depMissing(dep) ==
            ~ ( \/ InSeq(dep, ctx.createdFiles)
                \/ InSeq(dep, ctx.modifiedFiles)
                \/ fileExists(dep) )
        missingDeps == SelectSeq(op.dependencies, depMissing)
    IN [satisfied |-> Len(missingDeps) = 0, missingDeps |-> missingDeps]

updateExecutionContext(ctx, ref) ==
    LET target == operations[ref].target IN
    [ctx EXCEPT !.contextData =
        [t \in DOMAIN ctx.contextData \cup {target} |->
            IF t = target THEN [operation |-> ref] ELSE ctx.contextData[t]]]

\* Variant: a failure never blocks.
isBlockingFailureNever(failedOperation, allOperations) == FALSE

isBlockingFailure(failedOperation, allOperations) ==
    \E k \in DOMAIN allOperations :
        InSeq(failedOperation.target, allOperations[k].dependencies)

\* context.createdFiles.find(file => file.endsWith('.css')): 0 when undefined.
FindCssFile(createdFiles) ==
    IF \E k \in DOMAIN createdFiles : EndsWithCss(createdFiles[k])
    THEN CHOOSE k \in DOMAIN createdFiles :
            /\ EndsWithCss(createdFiles[k])
            /\ \A m \in DOMAIN createdFiles : EndsWithCss(createdFiles[m]) => k <= m
    ELSE 0

linkingDescription(cssFileName) ==
    Description("Remove inline styles and link to the external CSS file", cssFileName)

hasLinkRelationship(intentContext) ==
    \E k \in DOMAIN intentContext.relationships :
        intentContext.relationships[k].type = "link"

NoSummary ==
    [generated |-> FALSE, completed |-> 0, total |-> 0, failed |-> 0,
     warnings |-> 0, files |-> <<>>, allSuccessful |-> FALSE]

generateExecutionSummary(res, totalOperations) ==
    [generated |-> TRUE,
     completed |-> Len(res.completedOperations),
     total |-> totalOperations,
     failed |-> Len(res.failedOperations),
     warnings |-> Len(res.warnings),
     files |-> [k \in DOMAIN res.completedOperations |->
                    operations[res.completedOperations[k]].target],
     allSuccessful |-> res.success]

---------------------------------------------------------------------------
(* executeCompoundIntent *)

InferenceOutcomes == {"ok", "connection refused"}

Relationships == { <<>>, <<LinkRelationship>> }

DirectIntents ==
    { [operations |-> ops, isCompound |-> TRUE, originalInput |-> <<>>,
       context |-> Context("", "", rel)] :
        ops \in SeqsUpTo(ExecOperations, MaxOps), rel \in Relationships }

InitRun ==
    /\ i = 1
    /\ pc = "check"
    /\ pending = ""
    /\ result = [success |-> TRUE, completedOperations |-> <<>>,
                 failedOperations |-> <<>>, summary |-> NoSummary, warnings |-> <<>>]
    /\ executionContext = [createdFiles |-> <<>>, modifiedFiles |-> <<>>,
                           contextData |-> <<>>]
    /\ calls = <<>>
    /\ inferences = <<>>

\* The parse results processUserInput hands to the executor.
ExecutedParsedIntents ==
    { intent \in ParsedIntents : intent.isCompound \/ Len(intent.operations) > 0 }

\* No line is being classified by recognizeIntent.
ChatIdle ==
    /\ userInput = <<>>
    /\ legacyIntent = ""
    /\ session = [messages |-> <<>>]
    /\ processing = <<>>

\* No router has been constructed.
RouterIdle ==
    /\ request = <<>>
    /\ config = <<>>
    /\ userPreferences = <<>>
    /\ classification = <<>>
    /\ selection = <<>>
    /\ performanceTracker = <<>>
    /\ healthStatus = <<>>
    /\ history = <<>>

Init ==
    /\ compoundIntent \in DirectIntents \cup ExecutedParsedIntents
    /\ fs \in SUBSET FsPaths
    /\ InitRun
    /\ sortedOperations = <<>>
    /\ validation = [isValid |-> TRUE, errors |-> <<>>]
    /\ ChatIdle
    /\ RouterIdle

InLoop == pc = "check" /\ i <= Len(operations)

\* Variant: the catch block records the failure and leaves success alone.
StepFailedKeepsSuccess(errorMsg) ==
    LET blocking == isBlockingFailure(operation, operations) IN
    /\ result' = [result EXCEPT
            !.failedOperations = Append(@, [operation |-> i, error |-> errorMsg]),
            !.warnings = IF blocking THEN @
                         ELSE Append(@, [step |-> i, error |-> errorMsg])]
    /\ pc' = IF blocking THEN "summary" ELSE "check"
    /\ i' = IF blocking THEN i ELSE i + 1
    /\ pending' = ""

\* Variant: the catch block pushes the warning before it tests for a blocking
\* failure.
StepFailedAlwaysWarns(errorMsg) ==
    LET blocking == isBlockingFailure(operation, operations) IN
    /\ result' = [result EXCEPT
            !.failedOperations = Append(@, [operation |-> i, error |-> errorMsg]),
            !.success = FALSE,
            !.warnings = Append(@, [step |-> i, error |-> errorMsg])]
    /\ pc' = IF blocking THEN "summary" ELSE "check"
    /\ i' = IF blocking THEN i ELSE i + 1
    /\ pending' = ""

\* The catch block of the loop body.
StepFailed(errorMsg) ==
    LET blocking == isBlockingFailure(operation, operations) IN
    /\ result' = [result EXCEPT
            !.failedOperations = Append(@, [operation |-> i, error |-> errorMsg]),
            !.success = FALSE,
            !.warnings = IF blocking THEN @
                         ELSE Append(@, [step |-> i, error |-> errorMsg])]
    /\ pc' = IF blocking THEN "summary" ELSE "check"
    /\ i' = IF blocking THEN i ELSE i + 1
    /\ pending' = ""

\* operationResult.success: push to completedOperations, updateExecutionContext.
StepCompleted(ctx) ==
    /\ result' = [result EXCEPT !.completedOperations = Append(@, i)]
    /\ executionContext' = updateExecutionContext(ctx, i)
    /\ pc' = "check"
    /\ i' = i + 1
    /\ pending' = ""

\* Variant: the handler is started and the loop goes on without awaiting it.
DispatchWithoutAwait(call) ==
    /\ calls' = Append(calls, call)
    /\ pc' = "check"
    /\ i' = i + 1
    /\ pending' = ""
    /\ UNCHANGED <<chatVars, routerVars>>
    /\ UNCHANGED <<compoundIntent, fs, result, executionContext, inferences,
                   sortedOperations, validation>>

\* await executeOperation(...): the handler is called and the loop waits for it.
Dispatch(call) ==
    /\ calls' = Append(calls, call)
    /\ pc' = "await"
    /\ pending' = call.handler
    /\ UNCHANGED <<chatVars, routerVars>>
    /\ UNCHANGED <<compoundIntent, fs, i, result, executionContext, inferences,
                   sortedOperations, validation>>

FailWithoutHandler(errorMsg) ==
    /\ StepFailed(errorMsg)
    /\ UNCHANGED <<chatVars, routerVars>>
    /\ UNCHANGED <<compoundIntent, fs, executionContext, calls, inferences,
                   sortedOperations, validation>>

DependenciesNotSatisfied ==
    /\ InLoop
    /\ ~ checkDependencies(operation, executionContext).satisfied
    /\ FailWithoutHandler(ErrorMessage("Dependencies not satisfied",
            checkDependencies(operation, executionContext).missingDeps))

Ready == InLoop /\ checkDependencies(operation, executionContext).satisfied

DispatchWrite ==
    /\ Ready
    /\ operation.intent = "write"
    /\ Dispatch(HandlerCall("writeCommand", i, operation.target, NoText,
                            operation.description))

DispatchEdit ==
    /\ Ready
    /\ operation.intent = "edit"
    /\ ~ hasLinkRelationship(context)
    /\ Dispatch(HandlerCall("editCommand", i, operation.target, NoText,
                            operation.description))

DispatchEditLinking ==
    /\ Ready
    /\ operation.intent = "edit"
    /\ hasLinkRelationship(context)
    /\ FindCssFile(executionContext.createdFiles) # 0
    /\ LET cssFile == executionContext.createdFiles[
                          FindCssFile(executionContext.createdFiles)]
           cssFileName == AfterLastSlash(cssFile)
       IN Dispatch(HandlerCall("editCommand", i, operation.target, NoText,
                               linkingDescription(cssFileName)))

LinkingWithoutCssFile ==
    /\ Ready
    /\ operation.intent = "edit"
    /\ hasLinkRelationship(context)
    /\ FindCssFile(executionContext.createdFiles) = 0
    /\ FailWithoutHandler(ErrorMessage("No CSS file found to link to HTML", <<>>))

DispatchMove ==
    /\ Ready
    /\ operation.intent = "move"
    /\ LET parts == SplitOnSpace(operation.target) IN
       /\ Len(parts) = 2
       /\ Dispatch(HandlerCall("moveCommand", i, <<parts[1]>>, <<parts[2]>>,
                               NoDescription))

MoveWithoutSourceAndDestination ==
    /\ Ready
    /\ operation.intent = "move"
    /\ Len(SplitOnSpace(operation.target)) # 2
    /\ FailWithoutHandler(
            ErrorMessage("Move operation requires source and destination", <<>>))

DispatchPlan ==
    /\ Ready
    /\ operation.intent = "plan"
    /\ Dispatch(HandlerCall("planCommand", i, NoText, NoText, operation.description))

UnsupportedOperation ==
    /\ Ready
    /\ operation.intent \notin {"write", "edit", "move", "plan"}
    /\ FailWithoutHandler(ErrorMessage("Unsupported operation", <<>>))

---------------------------------------------------------------------------
(* Command handlers *)

Awaiting(handler) == pc = "await" /\ pending = handler

\* writeCommand: returns at once when the file exists; otherwise asks the model
\* for the content and writes the file; every error is caught and logged.
writeCommandEffect(filePath, outcome) ==
    IF outcome = "ok" THEN fs \cup {filePath} ELSE fs

\* Variant: executeWriteOperation returns without recording the target.
createdAfterWriteUnrecorded(ctx, target) == ctx

\* executeWriteOperation after its await: context.createdFiles.push(target).
createdAfterWrite(ctx, target) ==
    [ctx EXCEPT !.createdFiles = Append(@, target)]

\* executeEditOperation after its await: context.modifiedFiles.push(target).
modifiedAfterEdit(ctx, target) ==
    [ctx EXCEPT !.modifiedFiles = Append(@, target)]

WriteCommandReturns ==
    /\ Awaiting("writeCommand")
    /\ \E outcome \in IF fileExists(operation.target) THEN {"exists"}
                      ELSE InferenceOutcomes :
        /\ fs' = writeCommandEffect(operation.target, outcome)
        /\ inferences' = IF outcome = "exists" THEN inferences
                         ELSE Append(inferences,
                                [pos |-> i, handler |-> "writeCommand",
                                 outcome |-> outcome])
    /\ StepCompleted(createdAfterWrite(executionContext, operation.target))
    /\ UNCHANGED <<chatVars, routerVars>>
    /\ UNCHANGED <<compoundIntent, calls, sortedOperations, validation>>

\* editCommand: returns at once when the file is missing; otherwise asks the
\* model for the new content and overwrites the file in place; every error is
\* caught and logged, so the caller always sees a normal return.
editCommandOutcomes(filePath) ==
    IF fileExists(filePath) THEN InferenceOutcomes ELSE {"missing"}

EditCommandReturns ==
    /\ Awaiting("editCommand")
    /\ \E outcome \in editCommandOutcomes(operation.target) :
        inferences' = IF outcome = "missing" THEN inferences
                      ELSE Append(inferences,
                             [pos |-> i, handler |-> "editCommand",
                              outcome |-> outcome])
    /\ StepCompleted(modifiedAfterEdit(executionContext, operation.target))
    /\ UNCHANGED <<chatVars, routerVars>>
    /\ UNCHANGED <<compoundIntent, fs, calls, sortedOperations, validation>>

\* moveCommand: returns at once when the source is missing or the destination
\* exists; otherwise moves the file; every error is caught and logged.
MoveOutcomes == {"moved", "error"}

moveCommandEffect(srcPath, destPath, outcome) ==
    IF outcome = "moved" THEN (fs \ {srcPath}) \cup {destPath} ELSE fs

MoveCommandReturns ==
    /\ Awaiting("moveCommand")
    /\ LET call == calls[Len(calls)] IN
       \E outcome \in IF ~ fileExists(call.path) \/ fileExists(call.destination)
                      THEN {"cancelled"} ELSE MoveOutcomes :
            fs' = moveCommandEffect(call.path, call.destination, outcome)
    /\ StepCompleted(executionContext)
    /\ UNCHANGED <<chatVars, routerVars>>
    /\ UNCHANGED <<compoundIntent, calls, inferences, sortedOperations, validation>>

\* planCommand: creates the plan memory file when it is missing and prints it;
\* a file-system error is not caught.
PlanCommandReturns ==
    /\ Awaiting("planCommand")
    /\ StepCompleted(executionContext)
    /\ UNCHANGED <<chatVars, routerVars>>
    /\ UNCHANGED <<compoundIntent, fs, calls, inferences, sortedOperations, validation>>

PlanCommandThrows ==
    /\ Awaiting("planCommand")
    /\ StepFailed(ErrorMessage("planCommand failed", <<>>))
    /\ UNCHANGED <<chatVars, routerVars>>
    /\ UNCHANGED <<compoundIntent, fs, executionContext, calls, inferences,
                   sortedOperations, validation>>

\* After the loop (exhausted or left by break): the summary, then return.
Summarize ==
    /\ \/ pc = "check" /\ i > Len(operations)
       \/ pc = "summary"
    /\ result' = [result EXCEPT
            !.summary = generateExecutionSummary(result, Len(operations))]
    /\ pc' = "done"
    /\ UNCHANGED <<chatVars, routerVars>>
    /\ UNCHANGED <<compoundIntent, fs, i, pending, executionContext, calls,
                   inferences, sortedOperations, validation>>

Next ==
    \/ DependenciesNotSatisfied
    \/ DispatchWrite
    \/ DispatchEdit
    \/ DispatchEditLinking
    \/ LinkingWithoutCssFile
    \/ DispatchMove
    \/ MoveWithoutSourceAndDestination
    \/ DispatchPlan
    \/ UnsupportedOperation
    \/ WriteCommandReturns
    \/ EditCommandReturns
    \/ MoveCommandReturns
    \/ PlanCommandReturns
    \/ PlanCommandThrows
    \/ Summarize

Spec == Init /\ [][Next]_vars

---------------------------------------------------------------------------
(* The resolver applied to an operation list *)

NotValidated == [isValid |-> TRUE, errors |-> <<>>]

InitResolver ==
    /\ compoundIntent \in
        { [operations |-> ops, isCompound |-> TRUE, originalInput |-> <<>>,
           context |-> Context("", "", <<>>)] :
            ops \in SeqsUpTo(ResolverOperations, MaxListLen) }
    /\ fs = {}
    /\ i = 1
    /\ pc = "sort"
    /\ pending = ""
    /\ result = [success |-> TRUE, completedOperations |-> <<>>,
                 failedOperations |-> <<>>, summary |-> NoSummary, warnings |-> <<>>]
    /\ executionContext = [createdFiles |-> <<>>, modifiedFiles |-> <<>>,
                           contextData |-> <<>>]
    /\ calls = <<>>
    /\ inferences = <<>>
    /\ sortedOperations = <<>>
    /\ validation = NotValidated
    /\ ChatIdle
    /\ RouterIdle

SortOperations ==
    /\ pc = "sort"
    /\ sortedOperations' = sortOperationsByDependencies(operations, context)
    /\ pc' = "validate"
    /\ UNCHANGED <<chatVars, routerVars>>
    /\ UNCHANGED <<compoundIntent, fs, i, pending, result, executionContext, calls,
                   inferences, validation>>

ValidateSequence ==
    /\ pc = "validate"
    /\ validation' = validateOperationSequence(sortedOperations)
    /\ pc' = "resolved"
    /\ UNCHANGED <<chatVars, routerVars>>
    /\ UNCHANGED <<compoundIntent, fs, i, pending, result, executionContext, calls,
                   inferences, sortedOperations>>

NextResolver == SortOperations \/ ValidateSequence

SpecResolver == InitResolver /\ [][NextResolver]_vars

---------------------------------------------------------------------------
(* The two intent classifiers applied to a typed line *)

NotParsed ==
    [operations |-> <<>>, isCompound |-> FALSE, originalInput |-> <<>>,
     context |-> Context("", "", <<>>)]

InitIntent ==
    /\ userInput \in TypedInputs \cup LinkingRequests
    /\ legacyIntent = ""
    /\ session = [messages |-> <<>>]
    /\ processing = <<>>
    /\ compoundIntent = NotParsed
    /\ pc = "typed"
    /\ fs = {}
    /\ i = 1
    /\ pending = ""
    /\ result = [success |-> TRUE, completedOperations |-> <<>>,
                 failedOperations |-> <<>>, summary |-> NoSummary, warnings |-> <<>>]
    /\ executionContext = [createdFiles |-> <<>>, modifiedFiles |-> <<>>,
                           contextData |-> <<>>]
    /\ calls = <<>>
    /\ inferences = <<>>
    /\ sortedOperations = <<>>
    /\ validation = NotValidated
    /\ RouterIdle

RecognizeIntent ==
    /\ pc \in {"typed", "parsed"}
    /\ legacyIntent' = recognizeIntent(userInput)
    /\ pc' = IF pc = "typed" THEN "recognized" ELSE "classified"
    /\ UNCHANGED <<userInput, session, processing, routerVars>>
    /\ UNCHANGED <<compoundIntent, fs, i, pending, result, executionContext, calls,
                   inferences, sortedOperations, validation>>

RecognizeCompoundIntent ==
    /\ pc \in {"typed", "recognized"}
    /\ compoundIntent' = recognizeCompoundIntent(userInput)
    /\ pc' = IF pc = "typed" THEN "parsed" ELSE "classified"
    /\ UNCHANGED <<chatVars, routerVars>>
    /\ UNCHANGED <<fs, i, pending, result, executionContext, calls, inferences,
                   sortedOperations, validation>>

NextIntent == RecognizeIntent \/ RecognizeCompoundIntent

SpecIntent == InitIntent /\ [][NextIntent]_vars

---------------------------------------------------------------------------
(* The router answering one request: classifyContent and selectModel *)

ModelNames == { ModelName(Models[k]) : k \in DOMAIN Models }

\* initializeTracking
InitialPerformance ==
    [ name \in ModelNames |->
        [ totalRequests |-> 0, successfulRequests |-> 0, successRate |-> Fraction(1, 1) ] ]

InitialHealth == [ name \in ModelNames |-> [ status |-> "unknown", errorRate |-> 0 ] ]

\* No compound run is in progress.
NoRun ==
    /\ compoundIntent = NotParsed
    /\ fs = {}
    /\ i = 1
    /\ pending = ""
    /\ result = [success |-> TRUE, completedOperations |-> <<>>,
                 failedOperations |-> <<>>, summary |-> NoSummary, warnings |-> <<>>]
    /\ executionContext = [createdFiles |-> <<>>, modifiedFiles |-> <<>>,
                           contextData |-> <<>>]
    /\ calls = <<>>
    /\ inferences = <<>>
    /\ sortedOperations = <<>>
    /\ validation = NotValidated

NotClassified == [ type |-> "", suggestedModel |-> NoModel ]
NotSelected == [ selectedModel |-> NoModel ]

\* constructor: loadConfig, loadUserPreferences, initializeTracking
Constructed ==
    /\ config \in RoutingConfigs
    /\ userPreferences \in UserPreferenceSets
    /\ classification = NotClassified
    /\ selection = NotSelected
    /\ performanceTracker = InitialPerformance
    /\ healthStatus = InitialHealth
    /\ history = <<>>

InitRouter ==
    /\ NoRun
    /\ ChatIdle
    /\ Constructed
    /\ request \in Requests
    /\ pc = "request"

\* classifyContent(prompt, fileExtension, undefined, isCompound), as
\* selectModelForOperation calls it.
ClassifyContent ==
    /\ pc = "request"
    /\ classification' =
            classifyContent(request.prompt, request.fileExtension, NoModel,
                            request.isCompound)
    /\ pc' = "classified"
    /\ UNCHANGED <<request, config, userPreferences, selection, performanceTracker,
                   healthStatus, history>>
    /\ UNCHANGED <<chatVars, compoundIntent, fs, i, pending, result, executionContext,
                   calls, inferences, sortedOperations, validation>>

\* selectModel(prompt, options)
SelectModel ==
    /\ pc = "request"
    /\ selection' =
            selectModel(request.prompt, request.fileExtension, request.forceModel,
                        request.isCompound)
    /\ pc' = "selected"
    /\ UNCHANGED <<request, config, userPreferences, classification, performanceTracker,
                   healthStatus, history>>
    /\ UNCHANGED <<chatVars, compoundIntent, fs, i, pending, result, executionContext,
                   calls, inferences, sortedOperations, validation>>

NextRouter == ClassifyContent \/ SelectModel

SpecRouter == InitRouter /\ [][NextRouter]_vars

\* The router constructed from llm.json as it is (routing.default is analysis).
InitShipped ==
    /\ InitRouter
    /\ config.default = "analysis"

SpecRouterShipped == InitShipped /\ [][NextRouter]_vars

---------------------------------------------------------------------------
(* The router over a session: requests, tracking, health checks, preferences *)

NoRequest == Request(<<>>, NoExtension, NoModel, FALSE)

\* The requests of a session; none names an override.
SessionRequests ==
    { Request(Sentence(<<"debug">>), ".md", NoModel, FALSE),
      Request(Sentence(<<"hello">>), NoExtension, NoModel, FALSE) }

\* What one POST to the model server can end in.
CallOutcomes == { "ok", "invalid", "notFound", "refused", "apiError" }

\* One entry of the session's record of calls.
Called(call, req, suggestedModel, confidence) ==
    [ call |-> call, request |-> req, userPreferences |-> userPreferences,
      suggestedModel |-> suggestedModel, confidence |-> confidence,
      healthStatus |-> healthStatus, performanceTracker |-> performanceTracker,
      posts |-> <<>>, outcomes |-> <<>>, threw |-> FALSE ]

updateHealthStatus(health, modelName, status, error) ==
    IF modelName \notin DOMAIN health THEN health
    ELSE [ health EXCEPT ![modelName] =
            [ status |-> status,
              errorRate |-> IF error THEN @.errorRate + 10
                            ELSE IF status = "healthy" THEN Max(0, @.errorRate - 5)
                            ELSE @.errorRate ] ]

\* callModel: the health map it leaves, whether it throws and the models it
\* posted to the backend, in order; outcomes[1] is the outcome of this call's
\* axios.post and the rest those of the calls to the fallback model.
RECURSIVE callModel(_, _, _)
callModel(health, modelName, outcomes) ==
    LET outcome == outcomes[1]
        fallbackName == ModelName("fallback")
    IN CASE outcome = "ok" ->
                [ health |-> health, threw |-> FALSE, posts |-> <<modelName>> ]
         [] outcome = "invalid" ->
                [ health |-> health, threw |-> TRUE, posts |-> <<modelName>> ]
         [] outcome = "notFound" ->
                LET unavailable == updateHealthStatus(health, modelName, "unavailable", TRUE)
                IN IF modelName # fallbackName
                   THEN LET retried == callModel(unavailable, fallbackName, Tail(outcomes))
                        IN [ retried EXCEPT !.posts = <<modelName>> \o @ ]
                   ELSE [ health |-> updateHealthStatus(unavailable, modelName,
                                                        "degraded", TRUE),
                          threw |-> TRUE, posts |-> <<modelName>> ]
         [] outcome = "refused" ->
                [ health |-> updateHealthStatus(health, modelName, "unavailable", TRUE),
                  threw |-> TRUE, posts |-> <<modelName>> ]
         [] OTHER ->
                [ health |-> updateHealthStatus(health, modelName, "degraded", TRUE),
                  threw |-> TRUE, posts |-> <<modelName>> ]

trackSuccess(performance, modelName) ==
    [ performance EXCEPT ![modelName] =
        [ totalRequests |-> @.totalRequests + 1,
          successfulRequests |-> @.successfulRequests + 1,
          successRate |-> Fraction(@.successfulRequests + 1, @.totalRequests + 1) ] ]

trackFailure(performance, modelName) ==
    [ performance EXCEPT ![modelName] =
        [ totalRequests |-> @.totalRequests + 1,
          successfulRequests |-> @.successfulRequests,
          successRate |-> Fraction(@.successfulRequests, @.totalRequests + 1) ] ]

\* The session runs under llm.json as it is and starts without a preferences file.
InitSession ==
    /\ NoRun
    /\ ChatIdle
    /\ Constructed
    /\ config.default = "analysis"
    /\ userPreferences = [ defaultModel |-> NoModel, fileExtensionOverrides |-> {} ]
    /\ request = NoRequest
    /\ pc = "session"

SessionUnchanged ==
    UNCHANGED <<chatVars, compoundIntent, fs, i, pc, pending, result, executionContext,
                calls, inferences, sortedOperations, validation, config>>

\* A caller classifies a text: classifyContent(prompt, fileExtension, undefined, isCompound)
ClassifyRequest ==
    /\ pc = "session"
    /\ Len(history) < MaxCalls
    /\ \E req \in SessionRequests :
      \E classified \in { classifyContent(req.prompt, req.fileExtension, req.forceModel,
                                          req.isCompound) } :
           /\ request' = req
           /\ classification' = classified
           /\ history' = Append(history, Called("classifyContent", req,
                                                classified.suggestedModel,
                                                classified.confidence))
    /\ UNCHANGED <<userPreferences, selection, performanceTracker, healthStatus>>
    /\ SessionUnchanged

\* generateResponse: selectModel, callModel, then trackSuccess or trackFailure.
GenerateResponse ==
    /\ pc = "session"
    /\ Len(history) < MaxCalls
    /\ \E req \in SessionRequests :
      \E selected \in { selectModel(req.prompt, req.fileExtension, req.forceModel,
                                    req.isCompound) } :
      \E modelName \in { ModelName(selected.selectedModel) } :
           /\ request' = req
           /\ selection' = selected
           /\ \E first \in CallOutcomes, second \in CallOutcomes :
              \E called \in { callModel(healthStatus, modelName, <<first, second>>) } :
                /\ history' = Append(history,
                        [ Called("selectModel", req, selected.selectedModel,
                                 selected.confidence)
                            EXCEPT !.posts = called.posts,
                                   !.outcomes = SubSeq(<<first, second>>, 1,
                                                       Len(called.posts)),
                                   !.threw = called.threw ])
                /\ IF called.threw
                   THEN /\ performanceTracker' = trackFailure(performanceTracker, modelName)
                        /\ healthStatus' = updateHealthStatus(called.health, modelName,
                                                              "degraded", TRUE)
                   ELSE /\ performanceTracker' = trackSuccess(performanceTracker, modelName)
                        /\ healthStatus' = updateHealthStatus(called.health, modelName,
                                                              "healthy", FALSE)
    /\ UNCHANGED <<userPreferences, classification>>
    /\ SessionUnchanged

\* checkModelHealth(): every model answers the probe or does not.
CheckModelHealth ==
    /\ pc = "session"
    /\ Len(history) < MaxCalls
    /\ \E answers \in [ModelNames -> BOOLEAN] :
        healthStatus' =
            [ name \in ModelNames |->
                IF answers[name]
                THEN [ status |-> "healthy",
                       errorRate |-> Max(0, healthStatus[name].errorRate - 10) ]
                ELSE updateHealthStatus(healthStatus, name, "unavailable", TRUE)[name] ]
    /\ history' = Append(history, Called("checkModelHealth", NoRequest, NoModel,
                                         Fraction(0, 1)))
    /\ UNCHANGED <<request, userPreferences, classification, selection,
                   performanceTracker>>
    /\ SessionUnchanged

\* setFileExtensionOverride(extension, model)
SetFileExtensionOverride ==
    /\ pc = "session"
    /\ Len(history) < MaxCalls
    /\ \E extension \in {".md"}, model \in {"creative"} :
        userPreferences' =
            [ userPreferences EXCEPT !.fileExtensionOverrides =
                { pair \in @ : pair[1] # extension } \cup { <<extension, model>> } ]
    /\ history' = Append(history, Called("setFileExtensionOverride", NoRequest, NoModel,
                                         Fraction(0, 1)))
    /\ UNCHANGED <<request, classification, selection, performanceTracker, healthStatus>>
    /\ SessionUnchanged

NextSession ==
    ClassifyRequest \/ GenerateResponse \/ CheckModelHealth \/ SetFileExtensionOverride

SpecRouterSession == InitSession /\ [][NextSession]_vars

---------------------------------------------------------------------------
(* Properties of the executor and of the resolver *)

Range(s) == { s[k] : k \in DOMAIN s }

FailedRefs == { result.failedOperations[k].operation : k \in DOMAIN result.failedOperations }
CompletedRefs == Range(result.completedOperations)
DispatchedRefs == { calls[k].pos : k \in DOMAIN calls }
AttemptedRefs == FailedRefs \cup CompletedRefs

\* The operation at position q declares a dependency on the target of the one at p.
DependsOn(q, p) == InSeq(operations[p].target, operations[q].dependencies)

LaterDependent(p) == \E q \in DOMAIN operations : q > p /\ DependsOn(q, p)

Returned == pc = "done"

\* C1: when the operation at position p has failed and an operation at a later
\* position declares a dependency on its target, no operation after p is
\* dispatched to a handler and none is in completedOperations or failedOperations.
C1_BlockingFailureStopsRun ==
    \A p \in FailedRefs :
        LaterDependent(p) =>
            \A q \in DOMAIN operations :
                q > p => /\ q \notin DispatchedRefs
                         /\ q \notin CompletedRefs
                         /\ q \notin FailedRefs

\* A run that returned after a blocking failure that followed a completed step.
C1_Witness ==
    /\ Returned
    /\ CompletedRefs # {}
    /\ \E p \in FailedRefs : LaterDependent(p) /\ p > 1 /\ p < Len(operations)

\* C2: in a returned run, a failed operation at position p on whose target no
\* later operation depends did not stop the run: it left a warning, the
\* operation at p + 1 (if any) was attempted, and success is false.
C2_NonBlockingFailureContinues ==
    Returned =>
        \A p \in FailedRefs :
            ~ LaterDependent(p) =>
                /\ \E w \in DOMAIN result.warnings : result.warnings[w].step = p
                /\ p < Len(operations) => (p + 1) \in AttemptedRefs
                /\ ~ result.success

\* Two operations of the list declare a dependency on each other's target.
HasCycleOfTwo(ops) ==
    \E a, b \in DOMAIN ops :
        /\ a # b
        /\ InSeq(ops[b].target, ops[a].dependencies)
        /\ InSeq(ops[a].target, ops[b].dependencies)

\* C3: a run over a list holding a dependency cycle of length two invokes no
\* handler and completes no operation.
C3_CycleOfTwoExecutesNothing ==
    HasCycleOfTwo(operations) => calls = <<>> /\ result.completedOperations = <<>>

Count(x, s) == Cardinality({ k \in DOMAIN s : s[k] = x })

IsPermutation(s, t) ==
    /\ Len(s) = Len(t)
    /\ \A x \in Range(s) \cup Range(t) : Count(x, s) = Count(x, t)

\* Each operation of the list comes after every other operation of the list whose
\* target it declares as a dependency.
DependenciesFirst(ops) ==
    \A a, b \in DOMAIN ops :
        (a # b /\ InSeq(ops[b].target, ops[a].dependencies)) => b < a

\* C4: the resolver returns a permutation of its input in which every operation
\* comes after the operations it depends on, or flags a cycle.
C4_ResolverOrdersOrFlagsCycle ==
    pc = "resolved" =>
        \/ ~ validation.isValid
        \/ /\ IsPermutation(sortedOperations, operations)
           /\ DependenciesFirst(sortedOperations)

\* C5: in the output of sortOperationsByDependencies every write operation
\* precedes every edit operation.
C5_WritesBeforeEdits ==
    pc \in {"validate", "resolved"} =>
        \A a, b \in DOMAIN sortedOperations :
            (sortedOperations[a].intent = "write" /\ sortedOperations[b].intent = "edit")
                => a < b

\* A sorted list whose input put an edit of lower priority value before the write
\* it depends on.
C5_Witness ==
    /\ pc = "resolved"
    /\ \E a, b \in DOMAIN operations :
        /\ a < b
        /\ operations[a].intent = "edit"
        /\ operations[b].intent = "write"
        /\ operations[a].priority < operations[b].priority
        /\ InSeq(operations[b].target, operations[a].dependencies)

\* The declared dependencies of op that are in neither list of the context and
\* not on the file system, in declared order.
UnmetDependencies(op) ==
    LET unmet(dep) == /\ dep \notin Range(executionContext.createdFiles)
                      /\ dep \notin Range(executionContext.modifiedFiles)
                      /\ dep \notin fs
    IN SelectSeq(op.dependencies, unmet)

\* C6: a step whose operation has an unmet dependency invokes no handler, appends
\* the operation to failedOperations with the 'Dependencies not satisfied' error
\* listing the missing dependencies, and leaves the ExecutionContext unchanged.
C6_UnmetDependencyFailsStep ==
    [][ (InLoop /\ UnmetDependencies(operation) # <<>>) =>
            /\ calls' = calls
            /\ executionContext' = executionContext
            /\ result'.completedOperations = result.completedOperations
            /\ result'.failedOperations =
                 Append(result.failedOperations,
                        [operation |-> i,
                         error |-> ErrorMessage("Dependencies not satisfied",
                                                UnmetDependencies(operation))]) ]_vars

\* A step failed on two missing dependencies after an earlier step completed.
C6_Witness ==
    /\ executionContext.createdFiles # <<>>
    /\ \E k \in DOMAIN result.failedOperations :
        /\ result.failedOperations[k].error.msg = "Dependencies not satisfied"
        /\ Len(result.failedOperations[k].error.detail) = 1
        /\ Len(operations[result.failedOperations[k].operation].dependencies) = 2

StepOver(p) == i > p \/ pc \in {"summary", "done"}

\* C7: a write operation whose model-inference call failed is in failedOperations,
\* not in completedOperations, and its target is not in createdFiles.
C7_FailedInferenceFailsWrite ==
    \A k \in DOMAIN inferences :
        LET p == inferences[k].pos IN
        ( /\ inferences[k].handler = "writeCommand"
          /\ inferences[k].outcome # "ok"
          /\ StepOver(p) ) =>
            /\ p \in FailedRefs
            /\ p \notin CompletedRefs
            /\ ~ InSeq(operations[p].target, executionContext.createdFiles)

\* C8: success is true exactly when failedOperations is empty, and success does
\* not return to true.
C8_SuccessIffNoFailure ==
    /\ [](result.success <=> result.failedOperations = <<>>)
    /\ [][~ result.success => ~ result'.success]_vars

\* A returned run in which a step completed after another had failed.
C8_Witness ==
    /\ Returned
    /\ ~ result.success
    /\ \E p \in FailedRefs : \E q \in CompletedRefs : q > p

\* The last .css target of createdFiles, 0 when there is none.
LastCssFile(createdFiles) ==
    IF \E k \in DOMAIN createdFiles : EndsWithCss(createdFiles[k])
    THEN CHOOSE k \in DOMAIN createdFiles :
            /\ EndsWithCss(createdFiles[k])
            /\ \A m \in DOMAIN createdFiles : EndsWithCss(createdFiles[m]) => m <= k
    ELSE 0

\* C9: with a link relationship in the context, the instruction the edit handler
\* is invoked with names the file name of the last stylesheet of createdFiles,
\* and without a created stylesheet the edit step fails and invokes no handler.
C9_EditLinksLatestStylesheet ==
    /\ (Awaiting("editCommand") /\ hasLinkRelationship(context)) =>
            /\ LastCssFile(executionContext.createdFiles) # 0
            /\ calls[Len(calls)].instruction =
                 linkingDescription(AfterLastSlash(
                    executionContext.createdFiles[
                        LastCssFile(executionContext.createdFiles)]))
    /\ \A p \in DOMAIN operations :
        ( /\ StepOver(p)
          /\ operations[p].intent = "edit"
          /\ hasLinkRelationship(context)
          /\ LastCssFile(executionContext.createdFiles) = 0 ) =>
            p \notin DispatchedRefs /\ (p \in AttemptedRefs => p \in FailedRefs)

HandlerOf(intent) ==
    CASE intent = "write" -> "writeCommand"
      [] intent = "edit" -> "editCommand"
      [] intent = "move" -> "moveCommand"
      [] intent = "plan" -> "planCommand"
      [] OTHER -> ""

CallsFor(p) == { k \in DOMAIN calls : calls[k].pos = p }

FailedOnDependencies(p) ==
    \E k \in DOMAIN result.failedOperations :
        /\ result.failedOperations[k].operation = p
        /\ result.failedOperations[k].error.msg = "Dependencies not satisfied"

\* C10: for an operation produced by recognizeCompoundIntent whose step has run
\* with its dependencies satisfied, exactly one handler was invoked, the one of
\* its intent: write and edit with the target, move with a source and a
\* destination, plan with the description.
C10_ParsedOperationReachesItsHandler ==
    compoundIntent \in ParsedIntents =>
        \A p \in DOMAIN operations :
            ( /\ StepOver(p)
              /\ p \in AttemptedRefs
              /\ ~ FailedOnDependencies(p)
              /\ operations[p].intent \in {"write", "edit", "move", "plan"} ) =>
                /\ Cardinality(CallsFor(p)) = 1
                /\ \A k \in CallsFor(p) :
                    /\ calls[k].handler = HandlerOf(operations[p].intent)
                    /\ operations[p].intent \in {"write", "edit"} =>
                            calls[k].path = operations[p].target
                    /\ operations[p].intent = "move" =>
                            calls[k].path # NoText /\ calls[k].destination # NoText

---------------------------------------------------------------------------
(* Properties of the intent classifiers *)

BothClassified == pc = "classified"

\* C11: for a line that recognizeIntent labels ask, recognizeCompoundIntent
\* returns isCompound = false and no operation.
C11_AskYieldsNoOperation ==
    (BothClassified /\ legacyIntent = "ask") =>
        /\ ~ compoundIntent.isCompound
        /\ compoundIntent.operations = <<>>

\* The parse of a typed line on which compound detection fired and whose
\* decomposition produced no operation.
EmptyDecomposition ==
    /\ compoundIntent \in ParsedIntents
    /\ detectCompoundRequest(compoundIntent.originalInput)
    /\ compoundIntent.operations = <<>>

\* C12: a parse on which compound detection fired without producing operations
\* is not run by the executor as a compound request to a successful result over
\* zero operations.
C12_EmptyDecompositionFallsBack ==
    EmptyDecomposition => ~ (compoundIntent.isCompound /\ Returned /\ result.success)

\* C13: for a line that detectCompoundRequest does not classify as compound,
\* recognizeCompoundIntent returns no operation exactly when recognizeIntent
\* labels the line ask, and otherwise one operation whose intent is the label
\* recognizeIntent returns.
C13_SingleOperationFollowsRecognizeIntent ==
    (BothClassified /\ ~ detectCompoundRequest(userInput)) =>
        /\ Len(compoundIntent.operations) <= 1
        /\ (Len(compoundIntent.operations) = 0) <=> (legacyIntent = "ask")
        /\ Len(compoundIntent.operations) = 1 =>
                compoundIntent.operations[1].intent = legacyIntent

TakesLinkingPath ==
    /\ compoundIntent.originalInput # <<>>
    /\ compoundIntent \in ParsedIntents
    /\ matchesLinkingPattern(compoundIntent.originalInput)

Handlers == [k \in DOMAIN calls |-> calls[k].handler]

\* C14: the parse of a line on the stylesheet-linking path is compound and holds
\* a write of the CSS target without dependencies followed by an edit of the
\* HTML target that depends on exactly the CSS target and whose description
\* names the CSS file, both targets in the extracted folder; for the site
\* request these are site/styles.css and site/index.html; and the run invokes
\* the write handler on the CSS target before the edit handler.
C14_LinkingPathWritesThenEdits ==
    /\ TakesLinkingPath =>
        /\ compoundIntent.isCompound
        /\ Len(operations) = 2
        /\ operations[1].intent = "write"
        /\ Len(operations[1].target) = 1
        /\ operations[1].target[1].ext = "css"
        /\ operations[1].dependencies = <<>>
        /\ operations[2].intent = "edit"
        /\ Len(operations[2].target) = 1
        /\ operations[2].target[1].ext = "html"
        /\ operations[2].dependencies = <<operations[1].target>>
        /\ operations[2].description.args = AfterLastSlash(operations[1].target)
        /\ \A k \in 1..2 : operations[k].target[1].folder = context.folder
        /\ \A k \in DOMAIN calls :
            calls[k].handler = "editCommand" =>
                \E j \in 1..(k - 1) :
                    /\ calls[j].handler = "writeCommand"
                    /\ calls[j].path = operations[1].target
        /\ Returned => Handlers = <<"writeCommand", "editCommand">>
    /\ compoundIntent.originalInput = SiteRequest =>
        /\ TakesLinkingPath
        /\ operations[1].target = StylesCss
        /\ operations[2].target = IndexHtml
        /\ operations[2].dependencies = <<StylesCss>>

\* The run of the site request has returned after both handlers were invoked.
C14_Witness ==
    /\ compoundIntent.originalInput = SiteRequest
    /\ Returned
    /\ Handlers = <<"writeCommand", "editCommand">>
    /\ Len(result.completedOperations) = 2

GroupOf(label) == CHOOSE g \in DOMAIN IntentOrder : IntentOrder[g] = label

AnyPattern(text) == \E g \in DOMAIN IntentOrder : PatternMatches(text, IntentOrder[g])

AnyKeyword(text) == \E g \in DOMAIN IntentOrder : KeywordMatches(text, IntentOrder[g])

\* C15: recognizeIntent returns one of plan, edit, write, move, ask; when a
\* pattern of some group matches, the label is the first group in that order
\* with a matching pattern, whatever keywords the line contains; when no pattern
\* matches, it is the first group with a contained keyword; and ask when there
\* is none.
C15_PatternsBeforeKeywords ==
    legacyIntent # "" =>
        /\ legacyIntent \in Range(IntentOrder)
        /\ AnyPattern(userInput) =>
            /\ PatternMatches(userInput, legacyIntent)
            /\ \A h \in 1..(GroupOf(legacyIntent) - 1) :
                ~ PatternMatches(userInput, IntentOrder[h])
        /\ (~ AnyPattern(userInput) /\ AnyKeyword(userInput)) =>
            /\ KeywordMatches(userInput, legacyIntent)
            /\ \A h \in 1..(GroupOf(legacyIntent) - 1) :
                ~ KeywordMatches(userInput, IntentOrder[h])
        /\ (~ AnyPattern(userInput) /\ ~ AnyKeyword(userInput)) => legacyIntent = "ask"

\* A line labelled edit by a pattern although it contains a keyword of plan.
C15_Witness ==
    /\ legacyIntent = "edit"
    /\ PatternMatches(userInput, "edit")
    /\ ~ PatternMatches(userInput, "plan")
    /\ KeywordMatches(userInput, "plan")

---------------------------------------------------------------------------
(* Properties of the model router *)

\* The default profile as the configuration and the preferences state it.
ConfiguredDefault ==
    IF userPreferences.defaultModel # NoModel THEN userPreferences.defaultModel
    ELSE config.default

Selected == pc = "selected"

Classified == pc = "classified"

\* Neither forceModel nor a per-extension preference overrides the request.
NoOverride ==
    /\ request.forceModel = NoModel
    /\ \A pair \in userPreferences.fileExtensionOverrides :
            pair[1] # request.fileExtension

RequestScores == Scores(request.prompt, request.fileExtension, request.isCompound)

\* C16: whenever the confidence of a selection is below the configured
\* threshold and no override applies, the selected profile is the configured
\* default profile, whichever category has the maximum score and whether or not
\* a known file extension contributed a bonus.
C16_LowConfidenceSelectsDefault ==
    (/\ Selected
     /\ NoOverride
     /\ LessThan(selection.confidence, config.confidence_threshold))
    => selection.selectedModel = ConfiguredDefault

\* C17: when forceModel is given, the selected profile is the forced one and the
\* confidence is 1.0, for every text, file extension and compound flag.
C17_ForcedModelWins ==
    (Selected /\ request.forceModel # NoModel)
    => /\ selection.selectedModel = request.forceModel
       /\ selection.confidence = Fraction(1, 1)
       /\ selection.override = "user"

\* The forced profile is one the scores alone would not have picked.
C17_Witness ==
    /\ Selected
    /\ request.forceModel = "creative"
    /\ request.fileExtension = ".ts"
    /\ request.isCompound
    /\ RequestScores.creative = 0
    /\ RequestScores.code > 0
    /\ selection.selectedModel = "creative"

TieBreakOrder == <<"compound", "creative", "code", "analysis">>

\* Positions in TieBreakOrder of the categories that hold the maximum score.
Winners ==
    { k \in DOMAIN TieBreakOrder :
        RequestScores[TieBreakOrder[k]] = MaxScore(RequestScores) }

\* classifyContent decided by comparing the scores.
DecidedByScores ==
    /\ Classified
    /\ NoOverride
    /\ ~ (request.isCompound /\ classification.requiresThinking)
    /\ TotalScore(RequestScores) # 0

\* C18: in classifyContent without override and without the forced-compound
\* rule, when the total score is not zero the chosen category holds the maximum
\* score, and among several that hold it the first of compound, creative, code,
\* analysis is chosen.
C18_MaximumScoreWinsWithTieBreak ==
    DecidedByScores => classification.type = TieBreakOrder[First(Winners)]

\* Code and analysis tie and code is chosen.
C18_Witness ==
    /\ DecidedByScores
    /\ Winners = {3, 4}
    /\ classification.type = "code"

\* No indicator of the four vocabularies occurs in the text.
NoIndicatorMatches ==
    /\ \A k \in DOMAIN CREATIVE_INDICATORS :
            ~ ContainsPhrase(request.prompt, CREATIVE_INDICATORS[k])
    /\ \A k \in DOMAIN CODE_INDICATORS :
            ~ ContainsPhrase(request.prompt, CODE_INDICATORS[k])
    /\ \A k \in DOMAIN ANALYSIS_INDICATORS :
            ~ ContainsPhrase(request.prompt, ANALYSIS_INDICATORS[k])
    /\ \A k \in DOMAIN COMPOUND_INDICATORS :
            ~ ContainsPhrase(request.prompt, COMPOUND_INDICATORS[k])

Unhinted ==
    /\ request.fileExtension = NoExtension
    /\ request.forceModel = NoModel
    /\ ~ request.isCompound
    /\ NoIndicatorMatches

\* C19: for a text without indicator matches, without file extension, override
\* and compound flag, the router selects the configured default profile (the
\* user's default model if set, else routing.default) with confidence 0.5.
C19_NoIndicatorsSelectsDefault ==
    /\ (Selected /\ Unhinted)
        => /\ selection.selectedModel = ConfiguredDefault
           /\ selection.confidence = Fraction(1, 2)
    /\ (Classified /\ Unhinted)
        => /\ classification.suggestedModel = ConfiguredDefault
           /\ classification.confidence = Fraction(1, 2)

\* The user's default model differs from routing.default and is selected.
C19_Witness ==
    /\ Selected
    /\ Unhinted
    /\ userPreferences.defaultModel = "creative"
    /\ config.default = "analysis"
    /\ selection.selectedModel = "creative"

\* Two calls of the session were given the same inputs.
SameInputs(a, b) ==
    /\ a.call = b.call
    /\ a.call \in {"classifyContent", "selectModel"}
    /\ a.request = b.request
    /\ a.request.forceModel = NoModel
    /\ a.userPreferences = b.userPreferences

\* C20: two calls of classifyContent, or of selectModel, with the same text,
\* file extension, compound flag, configuration and preferences and no override
\* return the same suggestedModel and confidence, whatever the router processed
\* between them.
C20_ClassificationIsPure ==
    \A a \in DOMAIN history : \A b \in DOMAIN history :
        SameInputs(history[a], history[b])
        => /\ history[a].suggestedModel = history[b].suggestedModel
           /\ history[a].confidence = history[b].confidence

\* The same text is classified before and after a failed request that left the
\* suggested model degraded.
C20_Witness ==
    \E a \in DOMAIN history : \E b \in DOMAIN history :
        /\ a < b
        /\ history[a].call = "classifyContent"
        /\ SameInputs(history[a], history[b])
        /\ history[a].healthStatus[ModelName(history[a].suggestedModel)].status = "unknown"
        /\ history[b].healthStatus[ModelName(history[b].suggestedModel)].status = "degraded"
        /\ history[b].performanceTracker # history[a].performanceTracker

\* ---------------------------------------------------------------------------
\* The backend calls of generateResponse
\* ---------------------------------------------------------------------------

\* The calls of generateResponse the session has made so far.
GenerateResponseCalls == { n \in DOMAIN history : history[n].posts # <<>> }

\* The backend answered model-not-found for the selected profile of the call,
\* and that profile is not the fallback profile.
NotFoundForSelected(n) ==
    /\ history[n].suggestedModel # "fallback"
    /\ history[n].outcomes[1] = "notFound"

\* C21: when the backend answers model-not-found for the selected profile and
\* that profile is not the fallback profile, the model is posted once more with
\* the fallback profile before an error reaches the caller, and no call of
\* generateResponse posts more than twice.
C21_NotFoundRetriesFallbackOnce ==
    \A n \in GenerateResponseCalls :
        /\ Len(history[n].posts) <= 2
        /\ NotFoundForSelected(n)
            => history[n].posts = << ModelName(history[n].suggestedModel),
                                     ModelName("fallback") >>

\* ---------------------------------------------------------------------------
\* Texts that match analysis indicators only
\* ---------------------------------------------------------------------------

\* The request has no file extension, no override and no compound flag, and
\* the only indicators its text contains are analysis indicators.
OnlyAnalysisIndicatorsMatch ==
    /\ request.fileExtension = NoExtension
    /\ request.forceModel = NoModel
    /\ ~ request.isCompound
    /\ \A k \in DOMAIN CREATIVE_INDICATORS :
            ~ ContainsPhrase(request.prompt, CREATIVE_INDICATORS[k])
    /\ \A k \in DOMAIN CODE_INDICATORS :
            ~ ContainsPhrase(request.prompt, CODE_INDICATORS[k])
    /\ \A k \in DOMAIN COMPOUND_INDICATORS :
            ~ ContainsPhrase(request.prompt, COMPOUND_INDICATORS[k])
    /\ \E k \in DOMAIN ANALYSIS_INDICATORS :
            ContainsPhrase(request.prompt, ANALYSIS_INDICATORS[k])

\* C22: for a text whose only indicator matches are analysis indicators, with
\* no file extension, override or compound flag, classifyContent returns type
\* analysis and suggestedModel analysis with confidence analysis score / total
\* score, which is 1.0, and selectModel selects the analysis profile.
C22_AnalysisOnlySelectsAnalysis ==
    ((Classified \/ Selected) /\ OnlyAnalysisIndicatorsMatch)
    => \A score \in {RequestScores} :
        /\ score.analysis > 0
        /\ Classified
            => /\ classification.type = "analysis"
               /\ classification.suggestedModel = "analysis"
               /\ classification.confidence
                    = Fraction(score.analysis, TotalScore(score))
               /\ classification.confidence = Fraction(1, 1)
        /\ Selected
            => /\ selection.selectedModel = "analysis"
               /\ selection.confidence = Fraction(1, 1)

\* "explain how the caching layer works" is selected under a configuration
\* whose default profile is not analysis.
C22_Witness ==
    /\ Selected
    /\ OnlyAnalysisIndicatorsMatch
    /\ request.prompt = Sentence(<<"explain", "how", "the", "caching", "layer", "works">>)
    /\ ConfiguredDefault # "analysis"
    /\ selection.selectedModel = "analysis"

\* ---------------------------------------------------------------------------
\* Handlers in flight during executeCompoundIntent
\* ---------------------------------------------------------------------------

\* The handler calls whose operation has not been recorded as completed or
\* failed.
InFlight == { k \in DOMAIN calls : calls[k].pos \notin AttemptedRefs }

\* C23: within one run the handlers are called one after another in list
\* order: a handler is started only when the handlers of all earlier positions
\* have completed or failed and their results are recorded, so at most one
\* handler or inference call is in flight, and that one is the loop's current.
C23_StrictlySequential ==
    /\ Cardinality(InFlight) <= 1
    /\ InFlight # {} <=> pc = "await"
    /\ InFlight # {} => InFlight = {Len(calls)} /\ calls[Len(calls)].pos = i
    /\ \A k \in DOMAIN calls : \A m \in DOMAIN calls :
            k < m => calls[k].pos < calls[m].pos
    /\ \A k \in DOMAIN inferences :
            /\ inferences[k].pos \in DispatchedRefs
            /\ inferences[k].pos \in AttemptedRefs
            /\ \A m \in DOMAIN inferences :
                    k < m => inferences[k].pos < inferences[m].pos

\* The third handler of a run is in flight after two handlers returned.
C23_Witness ==
    /\ pc = "await"
    /\ Len(calls) = 3
    /\ Len(inferences) >= 1
    /\ Cardinality(AttemptedRefs) = 2

\* ---------------------------------------------------------------------------
\* Telemetry of the model profiles
\* ---------------------------------------------------------------------------

\* The counters and the health status kept for a profile: both maps are keyed
\* by the profile's model name.
Telemetry(profile, performance, health) ==
    [ performance |-> performance[ModelName(profile)],
      health |-> health[ModelName(profile)] ]

\* The telemetry of a profile before and after the n-th call of the session.
TelemetryBefore(profile, n) ==
    Telemetry(profile, history[n].performanceTracker, history[n].healthStatus)

TelemetryAfter(profile, n) ==
    IF n < Len(history)
    THEN Telemetry(profile, history[n + 1].performanceTracker, history[n + 1].healthStatus)
    ELSE Telemetry(profile, performanceTracker, healthStatus)

\* C24: a request routed to a profile changes only that profile's request
\* counts and health status and leaves the counters and the health status of
\* every other configured profile unchanged, under the shipped configuration.
C24_TelemetryPerProfile ==
    \A n \in GenerateResponseCalls :
        \A profile \in Range(Models) \ { history[n].suggestedModel } :
            TelemetryAfter(profile, n) = TelemetryBefore(profile, n)

\* ---------------------------------------------------------------------------
\* Compound requests that require deep reasoning
\* ---------------------------------------------------------------------------

\* The request is flagged compound, shouldUseThinking holds for it and the
\* router is configured to force the analysis profile for compound requests.
ForcedAnalysisForCompound ==
    /\ request.isCompound
    /\ config.qwen_specific.force_analysis_for_compound
    /\ shouldUseThinking(request.prompt, calculateComplexity(request.prompt),
                         request.isCompound)

\* C25: when a request is flagged compound, deep reasoning is required,
\* force_analysis_for_compound is configured and there is no user override,
\* selectModel selects the analysis profile, for every combination of scores,
\* confidence, threshold and configured default profile.
C25_CompoundSelectsAnalysis ==
    (Selected /\ NoOverride /\ ForcedAnalysisForCompound)
    => selection.selectedModel = "analysis"

\* ---------------------------------------------------------------------------
\* The range of the confidence
\* ---------------------------------------------------------------------------

\* The confidence the router returned for the request.
ReturnedConfidence ==
    IF Classified THEN classification.confidence ELSE selection.confidence

\* 0 <= x <= 1
InUnitInterval(x) == x.den > 0 /\ 0 <= x.num /\ x.num <= x.den

\* C26: every confidence lies in [0,1]; without override it is the maximum
\* category score divided by the sum of the four scores when the sum is
\* positive, hence at least 1/4, and 0.5 when the sum is zero; the four scores
\* are never negative.
C26_ConfidenceNormalized ==
    (Classified \/ Selected)
    => \A score \in {RequestScores} :
        /\ InUnitInterval(ReturnedConfidence)
        /\ score.creative >= 0 /\ score.code >= 0
        /\ score.analysis >= 0 /\ score.compound >= 0
        /\ (NoOverride /\ TotalScore(score) > 0)
            => /\ ReturnedConfidence = Fraction(MaxScore(score), TotalScore(score))
               /\ ~ LessThan(ReturnedConfidence, Fraction(1, 4))
        /\ (NoOverride /\ TotalScore(score) = 0)
            => ReturnedConfidence = Fraction(1, 2)

\* Three categories score for a classified compound request, and the
\* confidence is below one half.
C26_Witness ==
    /\ Classified
    /\ NoOverride
    /\ request.isCompound
    /\ LessThan(classification.confidence, Fraction(1, 2))
    /\ \E score \in {RequestScores} : score.code > 0 /\ score.analysis > 0

\* ---------------------------------------------------------------------------
\* createdFiles and modifiedFiles
\* ---------------------------------------------------------------------------

\* The targets of the completed operations of one intent, in execution order.
CompletedTargets(intent) ==
    LET completed == SelectSeq(result.completedOperations,
                               LAMBDA ref : operations[ref].intent = intent)
    IN [ k \in DOMAIN completed |-> operations[completed[k]].target ]

\* s is an initial part of t.
InitialPart(s, t) == Len(s) <= Len(t) /\ s = SubSeq(t, 1, Len(s))

SideEffectsRecorded ==
    /\ executionContext.createdFiles = CompletedTargets("write")
    /\ executionContext.modifiedFiles = CompletedTargets("edit")

\* C27: createdFiles and modifiedFiles are append-only, and after each step
\* createdFiles is the sequence of the targets of the completed write
\* operations and modifiedFiles that of the completed edit operations, in
\* execution order; a failed operation adds nothing and no entry is removed.
C27_ContextListsAppendOnly ==
    [][ /\ InitialPart(executionContext.createdFiles, executionContext.createdFiles')
        /\ InitialPart(executionContext.modifiedFiles, executionContext.modifiedFiles')
        /\ result'.failedOperations # result.failedOperations
            => /\ executionContext'.createdFiles = executionContext.createdFiles
               /\ executionContext'.modifiedFiles = executionContext.modifiedFiles
        /\ SideEffectsRecorded' ]_vars

\* A run recorded a write and an edit and then had a failed operation.
C27_Witness ==
    /\ Len(executionContext.createdFiles) >= 1
    /\ Len(executionContext.modifiedFiles) >= 1
    /\ Len(result.failedOperations) >= 1
    /\ FailedRefs \cap CompletedRefs = {}
    /\ \E k \in FailedRefs : \A m \in CompletedRefs : m < k

\* ---------------------------------------------------------------------------
\* The lists of the returned ExecutionResult
\* ---------------------------------------------------------------------------

\* The positions of failedOperations, in the order of the list.
FailedPositions ==
    [ k \in DOMAIN result.failedOperations |-> result.failedOperations[k].operation ]

\* The positions of a list increase strictly: the list has no position twice
\* and keeps the execution order.
InExecutionOrder(positions) ==
    \A k \in DOMAIN positions : \A m \in DOMAIN positions :
        k < m => positions[k] < positions[m]

\* The loop was left by break: the index still points at the failed operation.
Aborted == i <= Len(operations)

\* The positions the loop body was entered for.
LoopEntered == { p \in DOMAIN operations : p <= i }

\* C28: in a returned ExecutionResult no operation appears twice across
\* completedOperations and failedOperations, both lists keep the execution
\* order, every attempted operation is in exactly one of them, and the number
\* of warnings is the number of failures that did not abort the run.
C28_ResultListsPartitionAttempts ==
    Returned
    => /\ InExecutionOrder(result.completedOperations)
       /\ InExecutionOrder(FailedPositions)
       /\ CompletedRefs \cap FailedRefs = {}
       /\ CompletedRefs \cup FailedRefs = LoopEntered
       /\ DispatchedRefs \subseteq LoopEntered
       /\ Len(result.warnings)
            = Len(result.failedOperations) - (IF Aborted THEN 1 ELSE 0)
       /\ Aborted => i \in FailedRefs
       /\ result.summary.completed = Len(result.completedOperations)
       /\ result.summary.failed = Len(result.failedOperations)
       /\ result.summary.warnings = Len(result.warnings)

\* A returned run with a completed operation, a failure that left a warning
\* and a later failure that aborted the run.
C28_Witness ==
    /\ Returned
    /\ Aborted
    /\ CompletedRefs # {}
    /\ Len(result.failedOperations) = 2
    /\ Len(result.warnings) = 1

\* ---------------------------------------------------------------------------
\* The category label mixed
\* ---------------------------------------------------------------------------

\* Scores in tenths as the weights and bonuses of classifyContent add up to.
ScoreValues == {0, 10, 20, 21, 30, 40, 50}

ScoreCombinations ==
    [ creative : ScoreValues, code : ScoreValues, analysis : ScoreValues,
      compound : ScoreValues ]

\* The branch taken for a combination of scores whose total is positive is
\* never the mixed branch.
MixedBranchNotTaken ==
    \A score \in ScoreCombinations : \A requiresThinking \in BOOLEAN :
        TotalScore(score) > 0
        => PrimaryType(score, 0, requiresThinking).type
            \in {"code", "analysis", "creative", "compound"}

\* C29: classifyContent never returns the label mixed: for every combination
\* of scores, compound flag and deep-reasoning flag the returned type is one of
\* code, analysis, creative and compound, because one of the four comparisons
\* with the maximum holds before the mixed branch is reached.
C29_NeverMixed ==
    /\ Classified
        => classification.type \in {"code", "analysis", "creative", "compound"}
    /\ Selected => selection.reasoning # "mixed"
    /\ MixedBranchNotTaken

\* Two categories hold the maximum score of a classified request.
C29_Witness ==
    /\ DecidedByScores
    /\ Cardinality(Winners) >= 2
    /\ classification.type = "code"
    /\ RequestScores.analysis = RequestScores.code

---------------------------------------------------------------------------
(* Interactive chat mode: the 'line' listener of chatCommand *)

\* Lines typed at the prompt that are handed to processUserInput.
ChatLines == { Sentence(<<"hello">>), Sentence(<<"explain", "plan">>) }

UserMessage(input) == [role |-> "user", content |-> input]

\* The reply processUserInput records for an input (the response text or the
\* error text).
AssistantMessage(input) == [role |-> "assistant", content |-> input]

InitChat ==
    /\ NoRun
    /\ RouterIdle
    /\ ChatIdle
    /\ pc = "chat"

ChatUnchanged ==
    UNCHANGED <<compoundIntent, fs, i, pending, result, executionContext, calls,
                inferences, sortedOperations, validation, userInput, legacyIntent,
                routerVars>>

\* Every message that is still to be pushed fits the bound.
RoomForLine == Len(session.messages) + Len(processing) + 2 <= MaxMessages

\* rl.on('line', async input => ...) for an input that is no command: the
\* listener calls processUserInput, which pushes the user message and runs to
\* its first await; the event emitter does not wait for the listener's promise,
\* so the listener runs again for a line that arrives in the meantime.  The
\* branches for 'help' and for the empty line change nothing.
LineProcessed ==
    /\ pc = "chat"
    /\ RoomForLine
    /\ \E input \in ChatLines :
        /\ session' = [session EXCEPT !.messages = Append(@, UserMessage(input))]
        /\ processing' = Append(processing, input)
    /\ pc' = pc
    /\ ChatUnchanged

\* An invocation of processUserInput resumes after its awaits and pushes the
\* assistant message (the response, or the error text in the catch block);
\* the awaits of different invocations end in any order.
ProcessUserInputReturns ==
    /\ pc = "chat"
    /\ \E k \in DOMAIN processing :
        /\ session' = [session EXCEPT
                !.messages = Append(@, AssistantMessage(processing[k]))]
        /\ processing' = SubSeq(processing, 1, k - 1)
                          \o SubSeq(processing, k + 1, Len(processing))
    /\ pc' = pc
    /\ ChatUnchanged

\* The line 'clear': session.messages = [].
LineClear ==
    /\ pc = "chat"
    /\ session.messages # <<>>
    /\ session' = [session EXCEPT !.messages = <<>>]
    /\ UNCHANGED <<processing, pc>>
    /\ ChatUnchanged

\* The line 'exit' or 'quit': saveChatHistory, rl.close(), and the 'close'
\* listener ends the process with the invocations that still await.
LineExit ==
    /\ pc = "chat"
    /\ pc' = "closed"
    /\ processing' = <<>>
    /\ UNCHANGED session
    /\ ChatUnchanged

NextChat == LineProcessed \/ ProcessUserInputReturns \/ LineClear \/ LineExit

SpecChat == InitChat /\ [][NextChat]_vars

\* C30: in interactive chat mode the processing of one input line completes
\* before the processing of the next line starts: no two invocations of
\* processUserInput are in flight at the same time, and session.messages
\* records each user message immediately followed by its own reply.
C30_OneLineAtATime ==
    /\ Len(processing) <= 1
    /\ \A k \in DOMAIN session.messages :
        /\ session.messages[k].role = "user"
            => \/ k = Len(session.messages) /\ processing = <<session.messages[k].content>>
               \/ /\ k < Len(session.messages)
                  /\ session.messages[k + 1]
                        = AssistantMessage(session.messages[k].content)
        /\ session.messages[k].role = "assistant"
            => /\ k > 1
               /\ session.messages[k - 1] = UserMessage(session.messages[k].content)

====
